---- MODULE Spec2Model ----
(***************************************************************************)
(* Game State Encoder (cisco/gse): the data buffer, the primitive          *)
(* serializer and deserializer, the half-float conversion, the object      *)
(* encoder and decoder and the C API that wraps them.                      *)
(*                                                                         *)
(* Representation of machine values:                                      *)
(*   - an octet is a number in 0..255;                                     *)
(*   - a 64-bit value (std::uint64_t, std::size_t, VarUint.value) is the   *)
(*     sequence of its 8 octets, most significant first, so that every     *)
(*     64-bit value is representable and arithmetic wraps modulo 2^64;     *)
(*   - a float is the pair <<hi, lo>> of the two 16-bit halves of its      *)
(*     IEEE-754 bit pattern (the code moves floats with memcpy);           *)
(*   - an exception is a record [type, what]; NoErr is "no exception".     *)
(***************************************************************************)
EXTENDS Integers, Sequences, FiniteSets, TLC

VARIABLES
    data_buffer,    \* the gs::DataBuffer the encoder and the decoder work on
    written,        \* the objects whose records were appended, in order
    decoded,        \* the objects decoded so far, in order
    result,         \* what the last call did (a record, see Call)
    enc_error,      \* GS_Encoder_Context.error
    dec_error,      \* GS_Decoder_Context.error
    wire,           \* the received octets a decoder was set up on, if any
    copy,           \* a second gs::DataBuffer, for encoding what was decoded
    db,             \* a gs::DataBuffer exercised operation by operation
    dbi,            \* a DataBufferInterface exercised operation by operation
    dbres           \* what the last buffer operation did

vars == <<data_buffer, written, decoded, result, enc_error, dec_error,
          wire, copy, db, dbi, dbres>>

----------------------------------------------------------------------------
(* Octets and 64-bit words *)

\* x & 0x80 etc. are written with \div and %
Bit(x, k) == (x \div (2^k)) % 2

\* the 64-bit word of a small natural number (n < 2^31)
U64(n) == <<0, 0, 0, 0, (n \div 16777216) % 256, (n \div 65536) % 256,
            (n \div 256) % 256, n % 256>>

Zero64 == U64(0)

\* the word is below 2^31, so ToNat is defined on it
IsSmall(w) == w[1] = 0 /\ w[2] = 0 /\ w[3] = 0 /\ w[4] = 0 /\ w[5] < 128

ToNat(w) == w[5] * 16777216 + w[6] * 65536 + w[7] * 256 + w[8]

\* unsigned comparison a < b
Lt64(a, b) ==
    \E i \in 1..8 : a[i] < b[i] /\ \A j \in 1..(i-1) : a[j] = b[j]

Le64(a, b) == a = b \/ Lt64(a, b)

\* a + b modulo 2^64
Add64(a, b) ==
    LET c[i \in 1..9] == IF i = 9 THEN 0
                         ELSE (a[i] + b[i] + c[i+1]) \div 256
    IN  [i \in 1..8 |-> (a[i] + b[i] + c[i+1]) % 256]

\* a - b modulo 2^64
Sub64(a, b) ==
    LET br[i \in 1..9] == IF i = 9 THEN 0
                          ELSE IF a[i] - b[i] - br[i+1] < 0 THEN 1 ELSE 0
    IN  [i \in 1..8 |-> (a[i] - b[i] - br[i+1] + 256) % 256]

----------------------------------------------------------------------------
(* Exceptions *)

NoErr == [type |-> "", what |-> ""]

\* an object thrown: its class and what() returns.  "throw <string
\* literal>" throws a const char *, which is no std::exception
Exception(type, what) == [type |-> type, what |-> what]

IsStdException(e) == e.type \in {"DataBufferException", "DeserializerException",
                                 "DecoderException", "EncoderException"}

----------------------------------------------------------------------------
(* gs::DataBuffer (src/src/data_buffer.cpp).  buffer is TRUE when the      *)
(* pointer is not null; mem is the storage it points to.                   *)

\* DataBuffer::DataBuffer()
DataBufferDefault ==
    [buffer |-> FALSE, owns_buffer |-> FALSE, buffer_size |-> 0,
     data_length |-> 0, read_length |-> 0, mem |-> <<>>]

\* DataBuffer::DataBuffer(std::size_t buffer_size): AllocateBuffer();
\* operator new[] leaves the octets indeterminate, fill stands for them
DataBufferOwned(size, fill) ==
    [buffer |-> size > 0, owns_buffer |-> size > 0, buffer_size |-> size,
     data_length |-> 0, read_length |-> 0, mem |-> [i \in 1..size |-> fill]]

\* DataBuffer::DataBuffer(unsigned char *, std::size_t, std::size_t), for a
\* non-null pointer to storage holding m
DataBufferBorrowed(m, len) ==
    [buffer |-> TRUE, owns_buffer |-> FALSE, buffer_size |-> Len(m),
     data_length |-> len, read_length |-> 0, mem |-> m]

ErrOverflow ==
    Exception("DataBufferException",
              "Attempt to access memory beyond the end of the buffer")
ErrReadPastEnd ==
    Exception("DataBufferException",
              "Attempt to read beyond the end of the data")

\* DataBuffer::SetValue(const unsigned char *, offset, length)
SetValue(b, octs, offset) ==
    IF Len(octs) = 0 THEN [b |-> b, err |-> NoErr]
    ELSE IF ~b.buffer \/ offset + Len(octs) > b.buffer_size
    THEN [b |-> b, err |-> ErrOverflow]
    ELSE [b |-> [b EXCEPT !.mem =
                    SubSeq(b.mem, 1, offset) \o octs
                    \o SubSeq(b.mem, offset + Len(octs) + 1, Len(b.mem))],
          err |-> NoErr]

\* an AppendValue that updates data_length before it checks for the overflow
AppendValueLengthFirst(b, octs) ==
    IF Len(octs) = 0 THEN [b |-> b, err |-> NoErr]
    ELSE IF ~b.buffer \/ b.data_length + Len(octs) > b.buffer_size
    THEN [b |-> [b EXCEPT !.data_length = @ + Len(octs)], err |-> ErrOverflow]
    ELSE SetValue([b EXCEPT !.data_length = @ + Len(octs)], octs, b.data_length)

\* DataBuffer::AppendValue(const unsigned char *, length)
AppendValue(b, octs) ==
    IF Len(octs) = 0 THEN [b |-> b, err |-> NoErr]
    ELSE IF ~b.buffer \/ b.data_length + Len(octs) > b.buffer_size
    THEN [b |-> b, err |-> ErrOverflow]
    ELSE SetValue([b EXCEPT !.data_length = @ + Len(octs)], octs, b.data_length)

\* DataBuffer::AppendValue(std::uint64_t): checks the 8 octets, then appends
\* the high and the low 32 bits
AppendValue64(b, w) ==
    IF ~b.buffer \/ b.data_length + 8 > b.buffer_size
    THEN [b |-> b, err |-> ErrOverflow]
    ELSE AppendValue(AppendValue(b, SubSeq(w, 1, 4)).b, SubSeq(w, 5, 8))

\* std::memcpy with a null pointer and a length that is not 0 is undefined:
\* the access of address 0 ends the process
ErrNullPointer == Exception("UB", "memcpy with a null pointer")

\* DataBuffer::ReadValue(unsigned char *, length) for the fixed widths
ReadValue(b, length) ==
    IF length = 0 THEN [b |-> b, err |-> NoErr, v |-> <<>>]
    ELSE IF b.read_length + length > b.data_length
    THEN [b |-> b, err |-> ErrReadPastEnd, v |-> <<>>]
    ELSE IF ~b.buffer THEN [b |-> b, err |-> ErrNullPointer, v |-> <<>>]
    ELSE [b |-> [b EXCEPT !.read_length = @ + length], err |-> NoErr,
          v |-> SubSeq(b.mem, b.read_length + 1, b.read_length + length)]

\* DataBuffer::ReadValue(OctetString &, std::size_t length) with sum the
\* value of "read_length + length"
ReadOctetsTo(b, length, sum) ==
    IF length = Zero64 THEN [b |-> b, err |-> NoErr, v |-> <<>>]
    ELSE IF Lt64(U64(b.data_length), sum)
    THEN [b |-> b, err |-> ErrReadPastEnd, v |-> <<>>]
    ELSE IF Lt64(sum, U64(b.read_length))
    THEN \* std::vector::insert(end, first, last) with last before first
         \* is undefined
         [b |-> b, err |-> Exception("UB", "vector::insert, inverted range"),
          v |-> <<>>]
    ELSE [b |-> [b EXCEPT !.read_length = ToNat(sum)], err |-> NoErr,
          v |-> SubSeq(b.mem, b.read_length + 1, ToNat(sum))]

\* DataBuffer::ReadValue(OctetString &, std::size_t length): the length is
\* whatever the wire said, so read_length + length may wrap modulo 2^64
ReadValueOctetString(b, length) ==
    ReadOctetsTo(b, length, Add64(U64(b.read_length), length))

\* DataBuffer::AdvanceReadLength with sum the value of "read_length + count"
AdvanceTo(b, sum) ==
    IF Lt64(U64(b.data_length), sum)
    THEN [b |-> b,
          err |-> Exception("DataBufferException",
                      "Attempt to advance read length beyond data length")]
    ELSE [b |-> [b EXCEPT !.read_length = ToNat(sum)], err |-> NoErr]

\* DataBuffer::AdvanceReadLength(std::size_t count)
AdvanceReadLength(b, count) ==
    AdvanceTo(b, Add64(U64(b.read_length), count))

\* DataBuffer::ResetReadLength
ResetReadLength(b) == [b EXCEPT !.read_length = 0]

\* DataBuffer::SetDataLength
SetDataLength(b, length) ==
    IF ~b.buffer /\ length > 0
    THEN [b |-> b,
          err |-> Exception("DataBufferException",
                "Cannot set non-zero data length as no buffer was allocated")]
    ELSE IF length > b.buffer_size
    THEN [b |-> b,
          err |-> Exception("DataBufferException",
                            "Data length larger than the buffer size")]
    ELSE [b |-> [b EXCEPT !.data_length = length,
                          !.read_length = IF length < @ THEN length ELSE @],
          err |-> NoErr]

\* DataBuffer::FreeBuffer
FreeBuffer(b) ==
    [b EXCEPT !.data_length = 0, !.read_length = 0, !.buffer = FALSE,
              !.mem = <<>>]

\* DataBuffer::SetBuffer(new_buffer, new_buffer_size, new_data_length,
\* take_ownership), for a non-null pointer to storage holding m
SetBuffer(b, m, new_data_length, take_ownership) ==
    IF new_data_length > Len(m)
    THEN [b |-> b,
          err |-> Exception("DataBufferException",
                            "Data length larger than the buffer")]
    ELSE [b |-> [FreeBuffer(b) EXCEPT !.buffer = TRUE, !.mem = m,
                                      !.buffer_size = Len(m),
                                      !.data_length = new_data_length,
                                      !.owns_buffer = take_ownership],
          err |-> NoErr]

\* DataBuffer::TakeBufferOwnership
TakeBufferOwnership(b) ==
    [buffer |-> FALSE, owns_buffer |-> FALSE, buffer_size |-> 0,
     data_length |-> 0, read_length |-> 0, mem |-> <<>>]

\* the octets [0, data_length) of the buffer
Data(b) == SubSeq(b.mem, 1, b.data_length)

----------------------------------------------------------------------------
(* Half-float conversion (src/src/gse/src/half_float.cpp).  A float is the *)
(* pair <<hi, lo>> of the 16-bit halves of its bit pattern; a half float   *)
(* is a number in 0..65535.                                                *)

\* x >> k on a std::uint32_t.  A shift by 32 or more is undefined: wide is
\* what the build does with it, "zero" (the result is 0) or "mask" (the
\* count is taken modulo 32, as the x86 shift instructions do)
Shr32(x, k, wide) ==
    IF k < 31 THEN x \div (2^k)
    ELSE IF k = 31 THEN 0   \* the values shifted here are below 2^11
    ELSE IF wide = "zero" THEN 0 ELSE x \div (2^(k % 32))

ShiftOutcomes == {"zero", "mask"}

\* FloatToHalfFloat
FloatToHalfFloat(f, wide) ==
    LET sign_bit == (f[1] \div 32768) * 32768
        exponent == (f[1] % 32768) \div 128
        mant23   == (f[1] % 128) * 65536 + f[2]
        mantissa == mant23 \div 8192
    IN  IF exponent # 255
        THEN IF exponent >= 113 /\ exponent <= 142
             THEN (sign_bit + (exponent - 112) * 1024 + mantissa
                   + Bit(f[2], 12)) % 65536
             ELSE IF exponent = 0 THEN sign_bit
             ELSE IF exponent <= 112
             THEN sign_bit + Shr32(mantissa + 1024, 113 - exponent, wide)
             ELSE sign_bit + 31744
        ELSE IF mant23 = 0 THEN sign_bit + 31744
             ELSE sign_bit + 32256

\* bit position of the most significant bit of m (the code's binary search)
MsbPos(m) ==
    LET b8 == IF m >= 256 THEN 8 ELSE 0
        m8 == IF m >= 256 THEN m \div 256 ELSE m
        b4 == IF m8 >= 16 THEN b8 + 4 ELSE b8
        m4 == IF m8 >= 16 THEN m8 \div 16 ELSE m8
        b2 == IF m4 >= 4 THEN b4 + 2 ELSE b4
        m2 == IF m4 >= 4 THEN m4 \div 4 ELSE m4
    IN  IF m2 >= 2 THEN b2 + 1 ELSE b2

\* a HalfFloatToFloat whose subnormal exponent is one too small
HalfFloatToFloatLowExponent(h) ==
    LET sign_hi  == (h \div 32768) * 32768
        exponent == (h % 32768) \div 1024
        m10      == h % 1024
    IN  IF exponent # 31
        THEN IF exponent # 0
             THEN <<sign_hi + (exponent + 112) * 128 + m10 \div 8,
                    (m10 % 8) * 8192>>
             ELSE IF m10 = 0 THEN <<sign_hi, 0>>
             ELSE LET b  == MsbPos(m10)
                      mt == (m10 * 2^(23 - b)) % 8388608
                  IN  <<sign_hi + (102 + b) * 128 + mt \div 65536, mt % 65536>>
        ELSE IF m10 = 0 THEN <<sign_hi + 32640, 0>>
             ELSE <<sign_hi + 32704, 0>>

\* HalfFloatToFloat
HalfFloatToFloat(h) ==
    LET sign_hi  == (h \div 32768) * 32768
        exponent == (h % 32768) \div 1024
        m10      == h % 1024
    IN  IF exponent # 31
        THEN IF exponent # 0
             THEN <<sign_hi + (exponent + 112) * 128 + m10 \div 8,
                    (m10 % 8) * 8192>>
             ELSE IF m10 = 0 THEN <<sign_hi, 0>>
             ELSE LET b  == MsbPos(m10)
                      mt == (m10 * 2^(23 - b)) % 8388608
                  IN  <<sign_hi + (103 + b) * 128 + mt \div 65536, mt % 65536>>
        ELSE IF m10 = 0 THEN <<sign_hi + 32640, 0>>
             ELSE <<sign_hi + 32704, 0>>

----------------------------------------------------------------------------
(* Primitive serializer (src/src/gse/src/gs_serializer.cpp).  Every Write  *)
(* returns the count of octets and, when it has a buffer, makes a sequence *)
(* of DataBuffer::AppendValue calls.  Write(v, ...) is that sequence:      *)
(* a "raw" chunk is one AppendValue of its octets, a "u64" chunk is        *)
(* AppendValue(std::uint64_t).                                             *)

Raw(octs) == [k |-> "raw", o |-> octs]
Chunk64(w) == [k |-> "u64", o |-> w]

\* the octets of a 16-bit value in network byte order
Be16(x) == <<(x \div 256) % 256, x % 256>>

\* Serializer::Write(const VarUint &)
WriteVarUint(w) ==
    IF Le64(w, U64(127)) THEN << Raw(<<w[8]>>) >>
    ELSE IF Le64(w, U64(16383)) THEN << Raw(<<w[7] + 128, w[8]>>) >>
    ELSE IF Le64(w, U64(2097151))
         THEN << Raw(<<w[6] + 192>>), Raw(<<w[7], w[8]>>) >>
    ELSE IF Le64(w, <<0, 0, 0, 0, 255, 255, 255, 255>>)
         THEN << Raw(<<225>>), Raw(SubSeq(w, 5, 8)) >>
    ELSE << Raw(<<226>>), Chunk64(w) >>

\* a VarInt writer whose first test asks for 7 clear bits, as the VarUint
\* writer does, in place of the 7-bit signed range
WriteVarIntUnsigned7(w) ==
    IF SubSeq(w, 1, 7) = <<0, 0, 0, 0, 0, 0, 0>> /\ w[8] < 128
    THEN << Raw(<<w[8] % 128>>) >>
    ELSE IF \/ SubSeq(w, 1, 6) = <<255, 255, 255, 255, 255, 255>> /\ w[7] >= 224
            \/ SubSeq(w, 1, 6) = <<0, 0, 0, 0, 0, 0>> /\ w[7] < 32
    THEN << Raw(<<(w[7] % 64) + 128, w[8]>>) >>
    ELSE IF \/ SubSeq(w, 1, 5) = <<255, 255, 255, 255, 255>> /\ w[6] >= 240
            \/ SubSeq(w, 1, 5) = <<0, 0, 0, 0, 0>> /\ w[6] < 16
    THEN << Raw(<<(w[6] % 32) + 192>>), Raw(<<w[7], w[8]>>) >>
    ELSE IF \/ SubSeq(w, 1, 4) = <<255, 255, 255, 255>> /\ w[5] >= 128
            \/ SubSeq(w, 1, 4) = <<0, 0, 0, 0>> /\ w[5] < 128
    THEN << Raw(<<225>>), Raw(SubSeq(w, 5, 8)) >>
    ELSE << Raw(<<226>>), Chunk64(w) >>

\* Serializer::Write(const VarInt &): w is the two's complement word of
\* value.value.  "(value.value & 0xffff'ffff'ffff'ffc0) == 0xffff'ffff'ffff'
\* ffc0" says that the octets above the last are 255 and the last is 192
\* or more, "== 0" that they are 0 and the last is below 64; the masks
\* e000, fff0'0000 and 8000'0000 likewise
WriteVarInt(w) ==
    IF \/ SubSeq(w, 1, 7) = <<255, 255, 255, 255, 255, 255, 255>> /\ w[8] >= 192
       \/ SubSeq(w, 1, 7) = <<0, 0, 0, 0, 0, 0, 0>> /\ w[8] < 64
    THEN << Raw(<<w[8] % 128>>) >>
    ELSE IF \/ SubSeq(w, 1, 6) = <<255, 255, 255, 255, 255, 255>> /\ w[7] >= 224
            \/ SubSeq(w, 1, 6) = <<0, 0, 0, 0, 0, 0>> /\ w[7] < 32
    THEN << Raw(<<(w[7] % 64) + 128, w[8]>>) >>
    ELSE IF \/ SubSeq(w, 1, 5) = <<255, 255, 255, 255, 255>> /\ w[6] >= 240
            \/ SubSeq(w, 1, 5) = <<0, 0, 0, 0, 0>> /\ w[6] < 16
    THEN << Raw(<<(w[6] % 32) + 192>>), Raw(<<w[7], w[8]>>) >>
    ELSE IF \/ SubSeq(w, 1, 4) = <<255, 255, 255, 255>> /\ w[5] >= 128
            \/ SubSeq(w, 1, 4) = <<0, 0, 0, 0>> /\ w[5] < 128
    THEN << Raw(<<225>>), Raw(SubSeq(w, 5, 8)) >>
    ELSE << Raw(<<226>>), Chunk64(w) >>

\* Serializer::Write(Boolean) of a bool whose octet is value.  Boolean is
\* bool and Deserializer::Read(Boolean &) stores the octet it read into it
\* through a std::uint8_t reference, so the octet may be none of 0 and 1;
\* "if (value)" on such a bool is undefined and a build tests the whole
\* octet ("nonzero"), tests its low bit ("lowbit") or, having merged the two
\* branches, appends the octet itself ("octet").  The builds agree on 0, 1.
WriteBoolean(value, build) ==
    << Raw(<<CASE build = "nonzero" -> IF value # 0 THEN 1 ELSE 0
               [] build = "lowbit" -> value % 2
               [] build = "octet" -> value>>) >>

\* Serializer::Write(DataBuffer &, T) for the other primitive types.  A
\* Uint32, an Int32 and a Float32 are the pair of the 16-bit halves of
\* their bit pattern, appended as a 32-bit integer in network byte order;
\* an Int8 and an Int16 are signed numbers, cast to the unsigned type of
\* their width; an Int64 and a Float64 are the word of their bit pattern,
\* appended by AppendValue(std::uint64_t); a Boolean value is the octet
\* the bool is stored in; a String is the sequence of its chars
Write(value, kind) ==
    CASE kind = "Uint8"   -> << Raw(<<value>>) >>
      [] kind = "Uint16"  -> << Raw(Be16(value)) >>
      [] kind = "Int8"    -> << Raw(<<value % 256>>) >>
      [] kind = "Int16"   -> << Raw(Be16(value % 65536)) >>
      [] kind \in {"Uint64", "Int64", "Float64"} -> << Chunk64(value) >>
      [] kind = "VarUint" -> WriteVarUint(value)
      [] kind = "VarInt"  -> WriteVarInt(value)
      [] kind = "Float16" -> << Raw(Be16(FloatToHalfFloat(value, "zero"))) >>
      [] kind \in {"Float32", "Uint32", "Int32"} ->
            << Raw(Be16(value[1]) \o Be16(value[2])) >>
      [] kind = "Boolean" -> << Raw(<<IF value # 0 THEN 1 ELSE 0>>) >>
      [] kind \in {"Blob", "String"} ->
            IF Len(value) = 0 THEN WriteVarUint(U64(0))
            ELSE WriteVarUint(U64(Len(value))) \o << Raw(value) >>

RECURSIVE Size(_)
\* the count a Write returns: the octets of its chunks
Size(chunks) ==
    IF chunks = <<>> THEN 0 ELSE Len(chunks[1].o) + Size(Tail(chunks))

RECURSIVE Octets(_)
\* the octets the chunks put on the wire
Octets(chunks) ==
    IF chunks = <<>> THEN <<>> ELSE chunks[1].o \o Octets(Tail(chunks))

RECURSIVE AppendCalls(_, _)
\* after a call that gave r, the calls still to make: none once one threw
AppendMore(r, chunks) ==
    IF r.err # NoErr THEN r ELSE AppendCalls(r.b, chunks)

\* the AppendValue calls made one after the other, up to the first that
\* throws (the calls of the first half, then those of the second half)
AppendCalls(b, chunks) ==
    IF chunks = <<>> THEN [b |-> b, err |-> NoErr]
    ELSE IF Len(chunks) = 1
    THEN IF chunks[1].k = "u64" THEN AppendValue64(b, chunks[1].o)
         ELSE AppendValue(b, chunks[1].o)
    ELSE AppendMore(AppendCalls(b, SubSeq(chunks, 1, Len(chunks) \div 2)),
                    SubSeq(chunks, Len(chunks) \div 2 + 1, Len(chunks)))

----------------------------------------------------------------------------
(* Object encoder (src/src/gs_encoder.cpp).  An object is a record whose   *)
(* type field names the alternative of the GSObject variant; an optional   *)
(* member is the empty sequence or a sequence of one value.                *)

\* enum class Tag (src/include/gs_types.h) and the switch of
\* Encoder::Serialize(DataBuffer &, Tag)
TagValue(tag) ==
    CASE tag = "Head1"    -> 1
      [] tag = "Hand1"    -> 2
      [] tag = "Object1"  -> 3
      [] tag = "Mesh1"    -> 32768
      [] tag = "Hand2"    -> 32769
      [] tag = "HeadIPD1" -> 32770
      [] OTHER            -> 0

\* the members each Encoder::Serialize(DataBuffer &, const T &) writes, in
\* the order it writes them, and for the objects the members each
\* Encoder::Encode(DataBuffer &, const T &) serializes after the length
EncoderFields(kind) ==
    CASE kind = "Loc1" ->
            << <<"x", "Float32">>, <<"y", "Float32">>, <<"z", "Float32">> >>
      [] kind = "Loc2" ->
            << <<"x", "Float32">>, <<"y", "Float32">>, <<"z", "Float32">>,
               <<"vx", "Float16">>, <<"vy", "Float16">>, <<"vz", "Float16">> >>
      [] kind = "Norm1" ->
            << <<"x", "Float16">>, <<"y", "Float16">>, <<"z", "Float16">> >>
      [] kind = "TextureUV1" ->
            << <<"u", "VarUint">>, <<"v", "VarUint">> >>
      [] kind = "Rot1" ->
            << <<"i", "Float16">>, <<"j", "Float16">>, <<"k", "Float16">> >>
      [] kind = "Rot2" ->
            << <<"si", "Float16">>, <<"sj", "Float16">>, <<"sk", "Float16">>,
               <<"ei", "Float16">>, <<"ej", "Float16">>, <<"ek", "Float16">> >>
      [] kind = "Transform1" ->
            << <<"tx", "Float16">>, <<"ty", "Float16">>, <<"tz", "Float16">> >>
      [] kind = "Thumb" ->
            << <<"tip", "Transform1">>, <<"ip", "Transform1">>,
               <<"mcp", "Transform1">>, <<"cmc", "Transform1">> >>
      [] kind = "Finger" ->
            << <<"tip", "Transform1">>, <<"dip", "Transform1">>,
               <<"pip", "Transform1">>, <<"mcp", "Transform1">>,
               <<"cmc", "Transform1">> >>
      [] kind = "Object1" ->
            << <<"id", "VarUint">>, <<"time", "Uint16">>,
               <<"position", "Loc1">>, <<"rotation", "Rot1">>,
               <<"scale", "Loc1">>, <<"parent", "optional<VarUint>">> >>
      [] kind = "Head1" ->
            << <<"id", "VarUint">>, <<"time", "Uint16">>,
               <<"location", "Loc2">>, <<"rotation", "Rot2">>,
               <<"ipd", "optional<HeadIPD1>">> >>
      [] kind = "Hand1" ->
            << <<"id", "VarUint">>, <<"time", "Uint16">>,
               <<"left", "Boolean">>, <<"location", "Loc2">>,
               <<"rotation", "Rot2">> >>
      [] kind = "Hand2" ->
            << <<"id", "VarUint">>, <<"time", "Uint16">>,
               <<"left", "Boolean">>, <<"location", "Loc2">>,
               <<"rotation", "Rot2">>, <<"wrist", "Transform1">>,
               <<"thumb", "Thumb">>, <<"index", "Finger">>,
               <<"middle", "Finger">>, <<"ring", "Finger">>,
               <<"pinky", "Finger">> >>
      [] kind = "Mesh1" ->
            << <<"id", "VarUint">>, <<"vertices", "vector<Loc1>">>,
               <<"normals", "vector<Norm1>">>,
               <<"textures", "vector<TextureUV1>">>,
               <<"triangles", "vector<VarUint>">> >>

\* a data_length that leaves the optional member out of the sum
DataLengthWithoutOptional(type) ==
    IF type \in {"Object1", "Head1"}
    THEN SubSeq(EncoderFields(type), 1, Len(EncoderFields(type)) - 1)
    ELSE EncoderFields(type)

\* the members each Encoder::Encode(DataBuffer &, const T &) serializes
\* into null_buffer to compute data_length, in the order of the sum
DataLengthFields(type) ==
    CASE type = "Object1" ->
            << <<"id", "VarUint">>, <<"time", "Uint16">>,
               <<"position", "Loc1">>, <<"rotation", "Rot1">>,
               <<"scale", "Loc1">>, <<"parent", "optional<VarUint>">> >>
      [] type = "Head1" ->
            << <<"id", "VarUint">>, <<"time", "Uint16">>,
               <<"location", "Loc2">>, <<"rotation", "Rot2">>,
               <<"ipd", "optional<HeadIPD1>">> >>
      [] type = "Hand1" ->
            << <<"id", "VarUint">>, <<"time", "Uint16">>,
               <<"left", "Boolean">>, <<"location", "Loc2">>,
               <<"rotation", "Rot2">> >>
      [] type = "Hand2" ->
            << <<"id", "VarUint">>, <<"time", "Uint16">>,
               <<"left", "Boolean">>, <<"location", "Loc2">>,
               <<"rotation", "Rot2">>, <<"wrist", "Transform1">>,
               <<"thumb", "Thumb">>, <<"index", "Finger">>,
               <<"middle", "Finger">>, <<"ring", "Finger">>,
               <<"pinky", "Finger">> >>
      [] type = "Mesh1" ->
            << <<"id", "VarUint">>, <<"vertices", "vector<Loc1>">>,
               <<"normals", "vector<Norm1>">>,
               <<"textures", "vector<TextureUV1>">>,
               <<"triangles", "vector<VarUint>">> >>

\* the element type of a std::vector member
ElementKind(kind) ==
    CASE kind = "vector<Loc1>"       -> "Loc1"
      [] kind = "vector<Norm1>"      -> "Norm1"
      [] kind = "vector<TextureUV1>" -> "TextureUV1"
      [] kind = "vector<VarUint>"    -> "VarUint"

VectorKinds == {"vector<Loc1>", "vector<Norm1>", "vector<TextureUV1>",
                "vector<VarUint>"}

RECURSIVE Serialize(_, _)
RECURSIVE SerializeFields(_, _)
RECURSIVE SerializeElements(_, _)

\* Encoder::Serialize(data_buffer, value) for a value of the given type:
\* the AppendValue calls it makes (its return value is their Size)
Serialize(value, kind) ==
    CASE kind \in {"VarUint", "Uint16", "Float32", "Float16", "Boolean",
                   "Blob"} -> Write(value, kind)
      [] kind = "HeadIPD1" ->
            \* Encoder::Serialize(DataBuffer &, const HeadIPD1 &)
            LET data_length == Size(Serialize(value.ipd, "Float16"))
            IN  WriteVarUint(U64(TagValue("HeadIPD1")))
                \o WriteVarUint(U64(data_length))
                \o Serialize(value.ipd, "Float16")
      [] kind \in VectorKinds ->
            \* Encoder::Serialize(DataBuffer &, const std::vector<T> &)
            WriteVarUint(U64(Len(value)))
            \o SerializeElements(value, ElementKind(kind))
      [] kind = "optional<VarUint>" ->
            \* "if (value.parent.has_value())"
            IF value = <<>> THEN <<>> ELSE Serialize(value[1], "VarUint")
      [] kind = "optional<HeadIPD1>" ->
            \* "if (value.ipd.has_value())"
            IF value = <<>> THEN <<>> ELSE Serialize(value[1], "HeadIPD1")
      [] OTHER -> SerializeFields(value, EncoderFields(kind))

SerializeFields(value, fields) ==
    IF fields = <<>> THEN <<>>
    ELSE Serialize(value[fields[1][1]], fields[1][2])
         \o SerializeFields(value, Tail(fields))

SerializeElements(values, kind) ==
    IF values = <<>> THEN <<>>
    ELSE Serialize(values[1], kind) \o SerializeElements(Tail(values), kind)

\* EncodeResult plus what happened to the buffer and the exception thrown
EncodeResult(b, err, count, octets) ==
    [b |-> b, err |-> err, count |-> count, octets |-> octets]

\* what an Encode returns once its writes were made and gave r: {1, the
\* octets it counted}, unless one of them threw
Appended(r, total_length) ==
    IF r.err # NoErr THEN EncodeResult(r.b, r.err, 0, 0)
    ELSE EncodeResult(r.b, NoErr, 1, total_length)

\* the room check of an Encode and its writes: head is what precedes the
\* body, data_length the octets the body was computed to take
WriteIfRoom(b, head, data_length, body) ==
    IF b.data_length + Size(head) + data_length > b.buffer_size
    THEN EncodeResult(b, NoErr, 0, 0)
    ELSE Appended(AppendCalls(b, head \o body), Size(head) + Size(body))

\* the part the Encode functions of the tagged objects share: the tag, the
\* room check, then the tag, the length and the body appended in this order
EncodeFramed(b, tag, data_length, body) ==
    IF TagValue(tag) = 0
    THEN EncodeResult(b, Exception("EncoderException",
                                   "Invalid object tag value"), 0, 0)
    ELSE WriteIfRoom(b, WriteVarUint(U64(TagValue(tag)))
                        \o WriteVarUint(U64(data_length)),
                     data_length, body)

\* Encoder::Encode(DataBuffer &, const T &) for Object1, Head1, Hand1,
\* Hand2 and Mesh1
EncodeObject(b, value) ==
    EncodeFramed(b, value.type,
                 Size(SerializeFields(value, DataLengthFields(value.type))),
                 SerializeFields(value, EncoderFields(value.type)))

\* an Encode that writes the data of an UnknownObject without its length
EncodeUnknownDataOnly(b, value) ==
    WriteIfRoom(b, Serialize(value.tag, "VarUint"), Len(value.data),
                <<Raw(value.data)>>)

\* Encoder::Encode(DataBuffer &, const UnknownObject &): the tag is written
\* as a plain VarUint, then the data as a Blob
EncodeUnknownObject(b, value) ==
    WriteIfRoom(b, Serialize(value.tag, "VarUint"),
                Size(Serialize(value.data, "Blob")),
                Serialize(value.data, "Blob"))

\* Encoder has no Encode(DataBuffer &, const HeadIPD1 &): for this
\* alternative the visitor's call converts the HeadIPD1 back to a GSObject
\* and calls Encode(DataBuffer &, const GSObject &) again, without end
ErrRecursion ==
    Exception("stack exhausted", "Encode(GSObject) calls itself without end")

\* Encoder::Encode(DataBuffer &, const GSObject &)
Encode(b, value) ==
    CASE value.type \in {"Head1", "Hand1", "Object1", "Mesh1", "Hand2"} ->
            EncodeObject(b, value)
      [] value.type = "HeadIPD1" -> EncodeResult(b, ErrRecursion, 0, 0)
      [] value.type = "UnknownObject" -> EncodeUnknownObject(b, value)

RECURSIVE EncodeObjects(_, _)

\* "result.first += count; result.second += octets"
AddCounts(r, rest) ==
    EncodeResult(rest.b, rest.err, r.count + rest.count,
                 r.octets + rest.octets)

\* the loop of Encode(DataBuffer &, const GSObjects &) once an object gave
\* r: "if (count == 0) break", else the objects that follow
EncodeMore(r, values) ==
    IF r.err # NoErr \/ r.count = 0 THEN r
    ELSE AddCounts(r, EncodeObjects(r.b, values))

\* Encoder::Encode(DataBuffer &, const GSObjects &)
EncodeObjects(b, values) ==
    IF values = <<>> THEN EncodeResult(b, NoErr, 0, 0)
    ELSE EncodeMore(Encode(b, values[1]), Tail(values))

----------------------------------------------------------------------------
(* Primitive deserializer (src/src/gse/src/gs_deserializer.cpp).  A read   *)
(* returns the buffer afterwards, the exception thrown (NoErr when none),  *)
(* the value and the count of octets it reports.                           *)

ReadResult(b, err, v, n) == [b |-> b, err |-> err, v |-> v, n |-> n]

\* the octets of the fixed-width types
Width(kind) ==
    CASE kind \in {"Uint8", "Int8", "Boolean"} -> 1
      [] kind \in {"Uint16", "Int16", "Float16"} -> 2
      [] kind \in {"Float32", "Uint32", "Int32"} -> 4
      [] kind \in {"Uint64", "Int64", "Float64"} -> 8

\* Deserializer::Read(DataBuffer<> &, T &) of a fixed-width type, from the
\* octets r that ReadValue gave it.  The octet of a Boolean is stored into
\* the bool as it is; the octets of an Int8 and an Int16 are stored through
\* a reference to the unsigned type
ReadOf(kind, r) ==
    IF r.err # NoErr THEN ReadResult(r.b, r.err, <<>>, 0)
    ELSE ReadResult(r.b, NoErr,
             CASE kind \in {"Uint8", "Boolean"} -> r.v[1]
               [] kind = "Int8" ->
                     IF r.v[1] >= 128 THEN r.v[1] - 256 ELSE r.v[1]
               [] kind = "Uint16" -> r.v[1] * 256 + r.v[2]
               [] kind = "Int16" ->
                     IF r.v[1] >= 128 THEN r.v[1] * 256 + r.v[2] - 65536
                     ELSE r.v[1] * 256 + r.v[2]
               [] kind = "Float16" -> HalfFloatToFloat(r.v[1] * 256 + r.v[2])
               [] kind \in {"Float32", "Uint32", "Int32"} ->
                     <<r.v[1] * 256 + r.v[2], r.v[3] * 256 + r.v[4]>>
               [] kind \in {"Uint64", "Int64", "Float64"} -> r.v,
             Width(kind))

\* Deserializer::Read(DataBuffer<> &, T &) of a fixed-width type
Read(b, kind) == ReadOf(kind, ReadValue(b, Width(kind)))

\* Deserializer::Read(VarUint &) once the first octet is known: rest is what
\* reading the octets that follow it gave
VarUintValue(octet, rest) ==
    IF rest.err # NoErr THEN ReadResult(rest.b, rest.err, Zero64, 0)
    ELSE ReadResult(rest.b, NoErr,
             CASE Len(rest.v) = 0 -> U64(octet)
               [] Len(rest.v) = 1 -> <<0, 0, 0, 0, 0, 0, octet % 64, rest.v[1]>>
               [] Len(rest.v) = 2 -> <<0, 0, 0, 0, 0, octet % 32>> \o rest.v
               [] Len(rest.v) = 4 -> <<0, 0, 0, 0>> \o rest.v
               [] Len(rest.v) = 8 -> rest.v,
             1 + Len(rest.v))

\* a VarUint reader that takes every first octet from 224 on but 225 for
\* the 64-bit shape
VarUintOfAnyPrefix(first) ==
    IF first.err # NoErr THEN ReadResult(first.b, first.err, Zero64, 0)
    ELSE VarUintValue(first.v[1],
             ReadValue(first.b, CASE first.v[1] < 128 -> 0
                                  [] first.v[1] \in 128..191 -> 1
                                  [] first.v[1] \in 192..223 -> 2
                                  [] first.v[1] = 225 -> 4
                                  [] OTHER -> 8))

\* Deserializer::Read(VarUint &), from the first octet on
VarUintOf(first) ==
    IF first.err # NoErr THEN ReadResult(first.b, first.err, Zero64, 0)
    ELSE IF first.v[1] >= 224 /\ first.v[1] # 225 /\ first.v[1] # 226
    THEN ReadResult(first.b,
                    Exception("DeserializerException",
                              "Invalid VarUint in the data buffer"),
                    Zero64, 0)
    ELSE VarUintValue(first.v[1],
             ReadValue(first.b, CASE first.v[1] < 128 -> 0
                                  [] first.v[1] \in 128..191 -> 1
                                  [] first.v[1] \in 192..223 -> 2
                                  [] first.v[1] = 225 -> 4
                                  [] first.v[1] = 226 -> 8))

\* Deserializer::Read(VarUint &)
ReadVarUint(b) == VarUintOf(ReadValue(b, 1))

\* a VarInt reader that leaves the 32-bit value without its sign extension
VarIntValueUnextended32(octet, rest) ==
    IF rest.err # NoErr THEN ReadResult(rest.b, rest.err, Zero64, 0)
    ELSE ReadResult(rest.b, NoErr,
             CASE Len(rest.v) = 0 ->
                     IF Bit(octet, 6) = 1
                     THEN <<255, 255, 255, 255, 255, 255, 255, (octet % 128) + 128>>
                     ELSE U64(octet % 128)
               [] Len(rest.v) = 1 ->
                     IF Bit(octet, 5) = 1
                     THEN <<255, 255, 255, 255, 255, 255, (octet % 64) + 192,
                            rest.v[1]>>
                     ELSE <<0, 0, 0, 0, 0, 0, octet % 64, rest.v[1]>>
               [] Len(rest.v) = 2 ->
                     IF Bit(octet, 4) = 1
                     THEN <<255, 255, 255, 255, 255, (octet % 32) + 224>> \o rest.v
                     ELSE <<0, 0, 0, 0, 0, octet % 32>> \o rest.v
               [] Len(rest.v) = 4 ->
                     <<0, 0, 0, 0>> \o rest.v
               [] Len(rest.v) = 8 -> rest.v,
             1 + Len(rest.v))

\* Deserializer::Read(VarInt &) once the first octet is known: rest is what
\* reading the octets that follow it gave.  The bits of the first octet are
\* extended with ones when its sign bit (0x40, 0x20, 0x10) is set, and the
\* 32-bit value when its bit 31 is
VarIntValue(octet, rest) ==
    IF rest.err # NoErr THEN ReadResult(rest.b, rest.err, Zero64, 0)
    ELSE ReadResult(rest.b, NoErr,
             CASE Len(rest.v) = 0 ->
                     IF Bit(octet, 6) = 1
                     THEN <<255, 255, 255, 255, 255, 255, 255, (octet % 128) + 128>>
                     ELSE U64(octet % 128)
               [] Len(rest.v) = 1 ->
                     IF Bit(octet, 5) = 1
                     THEN <<255, 255, 255, 255, 255, 255, (octet % 64) + 192,
                            rest.v[1]>>
                     ELSE <<0, 0, 0, 0, 0, 0, octet % 64, rest.v[1]>>
               [] Len(rest.v) = 2 ->
                     IF Bit(octet, 4) = 1
                     THEN <<255, 255, 255, 255, 255, (octet % 32) + 224>> \o rest.v
                     ELSE <<0, 0, 0, 0, 0, octet % 32>> \o rest.v
               [] Len(rest.v) = 4 ->
                     IF rest.v[1] >= 128 THEN <<255, 255, 255, 255>> \o rest.v
                     ELSE <<0, 0, 0, 0>> \o rest.v
               [] Len(rest.v) = 8 -> rest.v,
             1 + Len(rest.v))

\* Deserializer::Read(VarInt &), from the first octet on
VarIntOf(first) ==
    IF first.err # NoErr THEN ReadResult(first.b, first.err, Zero64, 0)
    ELSE IF first.v[1] >= 224 /\ first.v[1] # 225 /\ first.v[1] # 226
    THEN ReadResult(first.b,
                    Exception("DeserializerException",
                              "Invalid VarInt in the data buffer"),
                    Zero64, 0)
    ELSE VarIntValue(first.v[1],
             ReadValue(first.b, CASE first.v[1] < 128 -> 0
                                  [] first.v[1] \in 128..191 -> 1
                                  [] first.v[1] \in 192..223 -> 2
                                  [] first.v[1] = 225 -> 4
                                  [] first.v[1] = 226 -> 8))

\* Deserializer::Read(VarInt &)
ReadVarInt(b) == VarIntOf(ReadValue(b, 1))

\* a Blob reader whose count leaves out the octets of the length
BlobDataUncounted(length_octets, r) ==
    IF r.err # NoErr THEN ReadResult(r.b, r.err, <<>>, 0)
    ELSE ReadResult(r.b, NoErr, r.v, Len(r.v))

\* Deserializer::Read(Blob &) once the length is read: r is what reading
\* the octets of the blob gave
BlobData(length_octets, r) ==
    IF r.err # NoErr THEN ReadResult(r.b, r.err, <<>>, 0)
    ELSE ReadResult(r.b, NoErr, r.v, length_octets + Len(r.v))

\* Deserializer::Read(Blob &), from the length it read on
BlobOf(length) ==
    IF length.err # NoErr THEN ReadResult(length.b, length.err, <<>>, 0)
    ELSE BlobData(length.n, ReadValueOctetString(length.b, length.v))

\* Deserializer::Read(Blob &)
ReadBlob(b) == BlobOf(ReadVarUint(b))

----------------------------------------------------------------------------
(* Object decoder (src/src/gse/src/gs_decoder.cpp).  The read_length and   *)
(* length_field locals are std::size_t and the length comes from the wire, *)
(* so the objects' counts are 64-bit words.                                *)

\* the members each Decoder::Deserialize(DataBuffer<> &, T &) reads, in the
\* order it reads them, and for the objects the required members each
\* Decoder::Decode(DataBuffer<> &, T &) deserializes after the length
DecoderFields(kind) ==
    CASE kind = "Loc1" ->
            << <<"x", "Float32">>, <<"y", "Float32">>, <<"z", "Float32">> >>
      [] kind = "Loc2" ->
            << <<"x", "Float32">>, <<"y", "Float32">>, <<"z", "Float32">>,
               <<"vx", "Float16">>, <<"vy", "Float16">>, <<"vz", "Float16">> >>
      [] kind = "Norm1" ->
            << <<"x", "Float16">>, <<"y", "Float16">>, <<"z", "Float16">> >>
      [] kind = "TextureUV1" ->
            << <<"u", "VarUint">>, <<"v", "VarUint">> >>
      [] kind = "Rot1" ->
            << <<"i", "Float16">>, <<"j", "Float16">>, <<"k", "Float16">> >>
      [] kind = "Rot2" ->
            << <<"si", "Float16">>, <<"sj", "Float16">>, <<"sk", "Float16">>,
               <<"ei", "Float16">>, <<"ej", "Float16">>, <<"ek", "Float16">> >>
      [] kind = "Transform1" ->
            << <<"tx", "Float16">>, <<"ty", "Float16">>, <<"tz", "Float16">> >>
      [] kind = "Thumb" ->
            << <<"tip", "Transform1">>, <<"ip", "Transform1">>,
               <<"mcp", "Transform1">>, <<"cmc", "Transform1">> >>
      [] kind = "Finger" ->
            << <<"tip", "Transform1">>, <<"dip", "Transform1">>,
               <<"pip", "Transform1">>, <<"mcp", "Transform1">>,
               <<"cmc", "Transform1">> >>
      [] kind = "Head1" ->
            << <<"id", "VarUint">>, <<"time", "Uint16">>,
               <<"location", "Loc2">>, <<"rotation", "Rot2">> >>
      [] kind = "Hand1" ->
            << <<"id", "VarUint">>, <<"time", "Uint16">>,
               <<"left", "Boolean">>, <<"location", "Loc2">>,
               <<"rotation", "Rot2">> >>
      [] kind = "Hand2" ->
            << <<"id", "VarUint">>, <<"time", "Uint16">>,
               <<"left", "Boolean">>, <<"location", "Loc2">>,
               <<"rotation", "Rot2">>, <<"wrist", "Transform1">>,
               <<"thumb", "Thumb">>, <<"index", "Finger">>,
               <<"middle", "Finger">>, <<"ring", "Finger">>,
               <<"pinky", "Finger">> >>
      [] kind = "Mesh1" ->
            << <<"id", "VarUint">>, <<"vertices", "vector<Loc1>">>,
               <<"normals", "vector<Norm1>">>,
               <<"textures", "vector<TextureUV1>">>,
               <<"triangles", "vector<VarUint>">> >>
      [] kind = "HeadIPD1" -> << <<"ipd", "Float16">> >>
      [] kind = "Object1" ->
            << <<"id", "VarUint">>, <<"time", "Uint16">>,
               <<"position", "Loc1">>, <<"rotation", "Rot1">>,
               <<"scale", "Loc1">> >>

RECURSIVE Deserialize(_, _)
RECURSIVE DeserializeFields(_, _)
RECURSIVE DeserializeElements(_, _, _)

\* "read_length += Deserialize(...)" of a read that follows n octets
Counted(n, r) == ReadResult(r.b, r.err, r.v, n + r.n)

\* Decoder::Deserialize(DataBuffer<> &, std::vector<T> &), from the element
\* count it read on
VectorOf(expected, kind) ==
    IF expected.err # NoErr THEN ReadResult(expected.b, expected.err, <<>>, 0)
    ELSE Counted(expected.n,
                 DeserializeElements(expected.b, ElementKind(kind), expected.v))

\* Decoder::Deserialize(data_buffer, value) for a value of the given type
Deserialize(b, kind) ==
    CASE kind = "VarUint" -> ReadVarUint(b)
      [] kind \in {"Uint16", "Float32", "Float16", "Boolean"} -> Read(b, kind)
      [] kind = "Blob" -> ReadBlob(b)
      [] kind \in VectorKinds -> VectorOf(ReadVarUint(b), kind)
      [] OTHER -> DeserializeFields(b, DecoderFields(kind))

\* the value read (r) put before the values read after it: a member under
\* its name, or a vector element ("value.push_back(v)") when name is ""
Join(name, r, rest) ==
    IF rest.err # NoErr THEN ReadResult(rest.b, rest.err, <<>>, 0)
    ELSE ReadResult(rest.b, NoErr,
                    IF name = "" THEN <<r.v>> \o rest.v
                    ELSE (name :> r.v) @@ rest.v,
                    r.n + rest.n)

\* the members that follow the one that gave r; none when it threw
FieldsMore(name, r, fields) ==
    IF r.err # NoErr THEN ReadResult(r.b, r.err, <<>>, 0)
    ELSE Join(name, r, DeserializeFields(r.b, fields))

\* the members of a structure, one after the other
DeserializeFields(b, fields) ==
    IF fields = <<>> THEN ReadResult(b, NoErr, <<>>, 0)
    ELSE FieldsMore(fields[1][1], Deserialize(b, fields[1][2]), Tail(fields))

\* the elements that follow the one that gave r; none when it threw
ElementsMore(r, kind, expected) ==
    IF r.err # NoErr THEN ReadResult(r.b, r.err, <<>>, 0)
    ELSE Join("", r, DeserializeElements(r.b, kind, expected))

\* the loop of the vector Deserialize: the elements still expected is the
\* count the wire gave, and the loop ends early only by an exception
DeserializeElements(b, kind, expected) ==
    IF expected = Zero64 THEN ReadResult(b, NoErr, <<>>, 0)
    ELSE ElementsMore(Deserialize(b, kind), kind, Sub64(expected, U64(1)))

\* what a Decode returns: the buffer afterwards, the exception thrown, the
\* object and the count of octets it reports (a 64-bit word)
DecodeResult(b, err, v, n) == [b |-> b, err |-> err, v |-> v, n |-> n]

\* the switch of Decoder::Deserialize(DataBuffer<> &, Tag &, VarUint &)
TagOf(raw) ==
    IF ~IsSmall(raw) THEN "Invalid"
    ELSE CASE ToNat(raw) = 1 -> "Head1"
           [] ToNat(raw) = 2 -> "Hand1"
           [] ToNat(raw) = 3 -> "Object1"
           [] ToNat(raw) = 32768 -> "Mesh1"
           [] ToNat(raw) = 32769 -> "Hand2"
           [] ToNat(raw) = 32770 -> "HeadIPD1"
           [] OTHER -> "Invalid"

\* Decoder::Deserialize(DataBuffer<> &, Tag &, VarUint &raw_value), from
\* the VarUint it read on
TagFrom(tag_value) ==
    IF tag_value.err # NoErr
    THEN [b |-> tag_value.b, err |-> tag_value.err, tag |-> "Invalid",
          raw |-> Zero64, n |-> 0]
    ELSE IF tag_value.v = Zero64
    THEN [b |-> tag_value.b,
          err |-> Exception("DecoderException",
                            "Invalid object tag in data buffer"),
          tag |-> "Invalid", raw |-> Zero64, n |-> 0]
    ELSE [b |-> tag_value.b, err |-> NoErr, tag |-> TagOf(tag_value.v),
          raw |-> tag_value.v, n |-> tag_value.n]

\* a decoder that never asks "Did we read more octets than we should have?"
LengthCheckNever(b, read_length, length_field, length, value) ==
    DecodeResult(b, NoErr, value, read_length)

\* "Did we read more octets than we should have?"
LengthCheck(b, read_length, length_field, length, value) ==
    IF Lt64(length, Sub64(read_length, length_field))
    THEN DecodeResult(b, Exception("DecoderException",
                                   "Encoded object length error"),
                      <<>>, Zero64)
    ELSE DecodeResult(b, NoErr, value, read_length)

\* after AdvanceReadLength gave adv: "read_length += length.value -
\* (read_length - length_field)", then the length check
Skipped(adv, read_length, length_field, length, value) ==
    IF adv.err # NoErr THEN DecodeResult(adv.b, adv.err, <<>>, Zero64)
    ELSE LengthCheck(adv.b,
             Add64(read_length, Sub64(length, Sub64(read_length, length_field))),
             length_field, length, value)

\* a decoder that takes octets left in the body for a length error
DiscardStrict(b, read_length, length_field, length, count, value) ==
    IF Lt64(Sub64(read_length, length_field), length)
    THEN DecodeResult(b, Exception("DecoderException",
                                   "Encoded object length error"),
                      <<>>, Zero64)
    ELSE LengthCheck(b, read_length, length_field, length, value)

\* "Discard any octets not understood" with the count the caller computed,
\* then the length check
Discard(b, read_length, length_field, length, count, value) ==
    IF Lt64(Sub64(read_length, length_field), length)
    THEN Skipped(AdvanceReadLength(b, count), read_length, length_field,
                 length, value)
    ELSE LengthCheck(b, read_length, length_field, length, value)

\* an UnknownObject
UnknownOf(tag, data) == [type |-> "UnknownObject", tag |-> tag, data |-> data]

\* "value = T{}": the members the required reads do not assign
Constructed(type) ==
    CASE type = "Head1"   -> [type |-> "Head1", ipd |-> <<>>]
      [] type = "Object1" -> [type |-> "Object1", active |-> 0, parent |-> <<>>]
      [] OTHER            -> [type |-> type]

\* a decoder that leaves the tag of an UnknownObject as it was constructed
UnknownFromUntagged(data, raw_tag) ==
    IF data.err # NoErr THEN DecodeResult(data.b, data.err, <<>>, Zero64)
    ELSE DecodeResult(data.b, NoErr, UnknownOf(Zero64, data.v), U64(data.n))

\* Decoder::Decode(DataBuffer<> &, UnknownObject &), from the blob it read
\* on; the caller has stored the raw tag
UnknownFrom(data, raw_tag) ==
    IF data.err # NoErr THEN DecodeResult(data.b, data.err, <<>>, Zero64)
    ELSE DecodeResult(data.b, NoErr, UnknownOf(raw_tag, data.v), U64(data.n))

\* Decoder::Decode(DataBuffer<> &, Object1 &) once the parent is read: the
\* octets not understood are skipped, the count being "length.value -
\* read_length"
Object1Discard(length, body, parent) ==
    IF parent.err # NoErr
    THEN DecodeResult(parent.b, parent.err, <<>>, Zero64)
    ELSE Discard(parent.b, U64(length.n + body.n + parent.n),
                 U64(length.n), length.v,
                 Sub64(length.v, U64(length.n + body.n + parent.n)),
                 ("parent" :> <<parent.v>>) @@ body.v @@ Constructed("Object1"))

RECURSIVE Decode(_)

\* a Head1 decoder that takes whatever object was decoded for the ipd
Head1DiscardUnchecked(length, body, object) ==
    IF object.err # NoErr
    THEN DecodeResult(object.b, object.err, <<>>, Zero64)
    ELSE Discard(object.b, Add64(U64(length.n + body.n), object.n),
                 U64(length.n), length.v,
                 Sub64(length.v, Add64(U64(length.n + body.n), object.n)),
                 ("ipd" :> <<object.v>>) @@ body.v @@ Constructed("Head1"))

\* Decoder::Decode(DataBuffer<> &, Head1 &) once the optional object is
\* decoded: it must be a HeadIPD1, and the octets not understood are
\* skipped, the count being "length.value - read_length"
Head1Discard(length, body, object) ==
    IF object.err # NoErr
    THEN DecodeResult(object.b, object.err, <<>>, Zero64)
    ELSE IF object.v.type # "HeadIPD1"
    THEN DecodeResult(object.b,
             Exception("const char *",
                 "Unexpected optional object type found decoding Head1"),
             <<>>, Zero64)
    ELSE Discard(object.b, Add64(U64(length.n + body.n), object.n),
                 U64(length.n), length.v,
                 Sub64(length.v, Add64(U64(length.n + body.n), object.n)),
                 ("ipd" :> <<object.v>>) @@ body.v @@ Constructed("Head1"))

\* Decoder::Decode(DataBuffer<> &, T &) of a known type once the required
\* members are read (body).  Head1 and Object1: "Are optional elements
\* present?"; the others: the octets not understood are skipped, the count
\* being "length.value - (read_length - length_field)"
DecodeOptional(length, body, type) ==
    IF body.err # NoErr THEN DecodeResult(body.b, body.err, <<>>, Zero64)
    ELSE IF type = "Head1" /\ Lt64(U64(body.n), length.v)
    THEN Head1Discard(length, body, Decode(body.b))
    ELSE IF type = "Object1" /\ Lt64(U64(body.n), length.v)
    THEN Object1Discard(length, body, ReadVarUint(body.b))
    ELSE Discard(body.b, U64(length.n + body.n), U64(length.n), length.v,
                 Sub64(length.v, U64(body.n)), body.v @@ Constructed(type))

\* Decoder::Decode(DataBuffer<> &, T &) of a known type, from the length it
\* read on
DecodeMembers(length, type) ==
    IF length.err # NoErr THEN DecodeResult(length.b, length.err, <<>>, Zero64)
    ELSE IF length.v = Zero64
    THEN DecodeResult(length.b,
                      Exception("DecoderException", "Invalid object length"),
                      <<>>, Zero64)
    ELSE DecodeOptional(length,
                        DeserializeFields(length.b, DecoderFields(type)), type)

\* the switch of Decoder::Decode(DataBuffer<> &, GSObject &)
DecodeTagged(b, tag, raw_tag) ==
    CASE tag \in {"Head1", "Hand1", "Object1", "Mesh1", "Hand2", "HeadIPD1"} ->
            DecodeMembers(ReadVarUint(b), tag)
      [] OTHER ->
            IF raw_tag = Zero64
            THEN DecodeResult(b,
                     Exception("DecoderException",
                               "Cannot decode an invalid (0) tag type"),
                     <<>>, Zero64)
            ELSE UnknownFrom(ReadBlob(b), raw_tag)

\* "read_length += Decode(data_buffer, object)" after the tag's octets
WithTag(tag_octets, r) ==
    IF r.err # NoErr THEN r
    ELSE DecodeResult(r.b, NoErr, r.v, Add64(U64(tag_octets), r.n))

\* Decoder::Decode(DataBuffer<> &, GSObject &), from the tag it read on
DecodeFrom(t) ==
    IF t.err # NoErr THEN DecodeResult(t.b, t.err, <<>>, Zero64)
    ELSE WithTag(t.n, DecodeTagged(t.b, t.tag, t.raw))

\* Decoder::Decode(DataBuffer<> &, GSObject &)
Decode(b) == DecodeFrom(TagFrom(ReadVarUint(b)))

\* the loop of Decode(DataBuffer<> &, GSObjects &) does not end: it is at a
\* read_length it was at before, and what an iteration does depends on
\* read_length alone, so the iterations repeat and each one does another
\* "value.push_back({})"
ErrNoReturn ==
    Exception("no return", "Decode(GSObjects) decodes the same octets again")

RECURSIVE DecodeObjectsFrom(_, _)

\* "value.push_back(object)" with the objects decoded after it
ObjectJoin(r, rest) ==
    IF rest.err # NoErr THEN rest
    ELSE DecodeResult(rest.b, NoErr, <<r.v>> \o rest.v, Add64(r.n, rest.n))

\* the loop of Decode(DataBuffer<> &, GSObjects &) once an object gave r
ObjectsMore(r, seen) ==
    IF r.err # NoErr THEN r ELSE ObjectJoin(r, DecodeObjectsFrom(r.b, seen))

\* the loop of Decode(DataBuffer<> &, GSObjects &), seen being the values
\* read_length had when the iterations before this one began
DecodeObjectsFrom(b, seen) ==
    IF ~(b.read_length < b.data_length) THEN DecodeResult(b, NoErr, <<>>, Zero64)
    ELSE IF b.read_length \in seen
    THEN DecodeResult(b, ErrNoReturn, <<>>, Zero64)
    ELSE ObjectsMore(Decode(b), seen \cup {b.read_length})

\* Decoder::Decode(DataBuffer<> &, GSObjects &)
DecodeObjects(b) == DecodeObjectsFrom(b, {})

----------------------------------------------------------------------------
(* The objects the calls are made with.  The floats are bit patterns:      *)
(* 1.1f = 3F8CCCCD, 0.2f = 3E4CCCCD, 30.0f = 41F00000, 1.0f = 3F800000,    *)
(* 2.0f = 40000000, 3.0f = 40400000, 3.140625f = 40490000,                 *)
(* -1.0f = BF800000, 65504.0f = 477FE000.                                  *)

F0 == <<0, 0>>
Pi == <<16457, 0>>

OneTwoThree == [x |-> <<16256, 0>>, y |-> <<16384, 0>>, z |-> <<16448, 0>>]
Transform1Of(x) == [tx |-> x, ty |-> F0, tz |-> F0]
FingerOf(x) == [tip |-> Transform1Of(x), dip |-> Transform1Of(F0),
                pip |-> Transform1Of(F0), mcp |-> Transform1Of(F0),
                cmc |-> Transform1Of(F0)]

TheHeadIPD1 == [type |-> "HeadIPD1", ipd |-> Pi]

Head1Plain ==
    [type |-> "Head1", id |-> U64(0), time |-> 1280,
     location |-> [x |-> <<16268, 52429>>, y |-> <<15948, 52429>>,
                   z |-> <<16880, 0>>, vx |-> F0, vy |-> F0, vz |-> F0],
     rotation |-> [si |-> F0, sj |-> F0, sk |-> F0,
                   ei |-> F0, ej |-> F0, ek |-> F0],
     ipd |-> <<>>]

Head1WithIpd == [Head1Plain EXCEPT !.ipd = <<TheHeadIPD1>>]

TheHand1 ==
    [type |-> "Hand1", id |-> U64(12), time |-> 1280, left |-> 1,
     location |-> Head1Plain.location, rotation |-> Head1Plain.rotation]

TheHand2 ==
    [type |-> "Hand2", id |-> U64(12), time |-> 1280, left |-> 1,
     location |-> Head1Plain.location, rotation |-> Head1Plain.rotation,
     wrist |-> Transform1Of(Pi),
     thumb |-> [tip |-> Transform1Of(Pi), ip |-> Transform1Of(F0),
                mcp |-> Transform1Of(F0), cmc |-> Transform1Of(F0)],
     index |-> FingerOf(Pi), middle |-> FingerOf(F0),
     ring |-> FingerOf(F0), pinky |-> FingerOf(Pi)]

Object1Plain ==
    [type |-> "Object1", id |-> U64(1), time |-> 1280,
     position |-> OneTwoThree, rotation |-> [i |-> F0, j |-> F0, k |-> F0],
     scale |-> OneTwoThree, active |-> 0, parent |-> <<>>]

Object1WithParent == [Object1Plain EXCEPT !.parent = <<U64(300)>>]

Object1Active == [Object1Plain EXCEPT !.active = 1]

TheMesh1 ==
    [type |-> "Mesh1", id |-> U64(27),
     vertices |-> <<OneTwoThree, OneTwoThree>>,
     normals |-> << [x |-> Pi, y |-> <<49024, 0>>, z |-> <<18303, 57344>>] >>,
     textures |-> << [u |-> U64(1), v |-> U64(129)] >>,
     triangles |-> <<U64(2), U64(130)>>]

\* the objects of the specification's catalog
Catalog ==
    {Head1Plain, Head1WithIpd, TheHand1, TheHand2, Object1Plain,
     Object1WithParent, TheMesh1, TheHeadIPD1}

\* every object the calls of the model are made with
Objects ==
    Catalog \cup {Object1Active, UnknownOf(U64(32), <<0, 5, 0>>),
                  UnknownOf(U64(0), <<5>>)}

----------------------------------------------------------------------------
(* The C API (src/src/gs_api.cpp, src/src/gs_api_internal.cpp)             *)

\* "return encode_result.first" of the GSSerializeObject functions
Serialized(r) == [b |-> r.b, ret |-> r.count, error |-> "", err |-> r.err]

\* GSSerializeObject(context, const GS_Object &): the int it returns, the
\* buffer, context.error when it sets it, and the exception it lets through
GSSerializeObject(b, object) ==
    IF b.data_length = b.buffer_size
    THEN [b |-> b, ret |-> 0, error |-> "", err |-> NoErr]
    ELSE IF object.type = "Invalid"
    THEN [b |-> b, ret |-> -1,
          error |-> "Unable to serialize an Invalid object type",
          err |-> NoErr]
    ELSE Serialized(Encode(b, IF object.type = "Object1"
                              THEN [object EXCEPT !.active = 0] ELSE object))

\* the try block of GSEncodeObject around the call that gave r, with the
\* data length it noted before the call
EncodeCaught(r, data_length) ==
    IF r.err = NoErr
    THEN [b |-> r.b, ret |-> r.ret, error |-> r.error, err |-> NoErr]
    ELSE IF r.err = ErrRecursion
    THEN [b |-> r.b, ret |-> -1, error |-> "", err |-> r.err]
    ELSE [b |-> SetDataLength(r.b, data_length).b, ret |-> -1,
          error |-> IF IsStdException(r.err) THEN r.err.what ELSE "",
          err |-> NoErr]

\* GSEncodeObject
GSEncodeObject(b, object) ==
    EncodeCaught(GSSerializeObject(b, object), b.data_length)

\* GSEncoderDataLength: the length it returns and context.error afterwards;
\* GetDataLength throws nothing, so the error text is not assigned
GSEncoderDataLength(b, error) == [ret |-> b.data_length, error |-> error]

\* GSDeserializeObject once Decode gave r: the object is converted and 1
\* returned
Deserialized(r) ==
    IF r.err # NoErr THEN [b |-> r.b, ret |-> -1, v |-> <<>>, err |-> r.err]
    ELSE [b |-> r.b, ret |-> 1, v |-> r.v, err |-> NoErr]

\* GSDeserializeObject(context, GS_Object &)
GSDeserializeObject(b) ==
    IF b.read_length >= b.data_length
    THEN [b |-> b, ret |-> 0, v |-> <<>>, err |-> NoErr]
    ELSE Deserialized(Decode(b))

\* the try block of GSDecodeObject around the call that gave r
DecodeCaught(r) ==
    IF r.err = NoErr
    THEN [b |-> r.b, ret |-> r.ret, v |-> r.v, error |-> ""]
    ELSE IF IsStdException(r.err)
    THEN [b |-> r.b, ret |-> -1, v |-> <<>>, error |-> r.err.what]
    ELSE [b |-> r.b, ret |-> -1, v |-> <<>>, error |-> ""]

\* GSDecodeObject
GSDecodeObject(b) == DecodeCaught(GSDeserializeObject(b))

----------------------------------------------------------------------------
(* The encoder and the decoder at work on one buffer *)

\* sizes of the buffers the encoder is given
SmallSize == 40
MidSize == 100
LargeSize == 300

\* the most objects a buffer is filled with, call by call
MaxObjects == 2
\* the longest vector handed to Encode(DataBuffer &, const GSObjects &)
MaxVector == 2

\* DataBuffer(nullptr, size, 0): the constructor accepts a null pointer
\* with a size
DataBufferNull(size) ==
    [buffer |-> FALSE, owns_buffer |-> FALSE, buffer_size |-> size,
     data_length |-> 0, read_length |-> 0, mem |-> <<>>]

\* what a call did: the operation, its argument, the buffer before it, the
\* exception that left it, and what it returned
Call(op, arg, before, err, count, octets, value, n) ==
    [op |-> op, arg |-> arg, before |-> before, err |-> err, count |-> count,
     octets |-> octets, value |-> value, n |-> n]

NoCall == Call("none", <<>>, DataBufferDefault, NoErr, 0, 0, <<>>, Zero64)

NoWire == [octets |-> <<>>, object |-> <<>>, extra |-> <<>>, short |-> 0,
           over |-> "no"]

\* the process is gone: the recursion of Encode used the stack up
Crashed == result.err \in {ErrRecursion, ErrNoReturn}

Vectors ==
    UNION {[1..k -> Objects] : k \in 2..MaxVector}

InitBuf ==
    /\ db = DataBufferDefault
    /\ dbi = DataBufferDefault
    /\ dbres = NoCall

Init ==
    /\ data_buffer \in {DataBufferOwned(SmallSize, 0),
                        DataBufferOwned(MidSize, 0),
                        DataBufferOwned(LargeSize, 0),
                        DataBufferNull(MidSize)}
    /\ written = <<>>
    /\ decoded = <<>>
    /\ result = NoCall
    /\ enc_error = ""
    /\ dec_error = ""
    /\ wire = NoWire
    /\ copy = DataBufferDefault
    /\ InitBuf

Encoding == ~Crashed /\ decoded = <<>> /\ data_buffer.read_length = 0
            /\ result.op \notin {"Decode", "DecodeObjects", "GSDecodeObject"}

\* encoder.Encode(data_buffer, object)
CallEncode ==
    /\ Encoding /\ Len(written) < MaxObjects
    /\ \E o \in Objects :
         \E r \in {Encode(data_buffer, o)} :
             /\ data_buffer' = r.b
             /\ written' = IF r.count = 1 THEN Append(written, o) ELSE written
             /\ result' = Call("Encode", <<o>>, data_buffer, r.err, r.count,
                               r.octets, <<>>, Zero64)
    /\ UNCHANGED <<decoded, enc_error, dec_error, wire, copy, db, dbi, dbres>>

\* encoder.Encode(data_buffer, objects)
CallEncodeObjects ==
    /\ Encoding /\ written = <<>> /\ result = NoCall
    /\ \E os \in Vectors :
         \E r \in {EncodeObjects(data_buffer, os)} :
             /\ data_buffer' = r.b
             /\ written' = SubSeq(os, 1, r.count)
             /\ result' = Call("EncodeObjects", os, data_buffer, r.err,
                               r.count, r.octets, <<>>, Zero64)
    /\ UNCHANGED <<decoded, enc_error, dec_error, wire, copy, db, dbi, dbres>>

\* GSEncodeObject(context, &object)
CallGSEncodeObject ==
    /\ Encoding /\ Len(written) < MaxObjects
    /\ \E o \in Objects \cup {[type |-> "Invalid"]} :
         \E r \in {GSEncodeObject(data_buffer, o)} :
             /\ data_buffer' = r.b
             /\ written' = IF r.ret = 1 THEN Append(written, o) ELSE written
             /\ enc_error' = r.error
             /\ result' = Call("GSEncodeObject", <<o>>, data_buffer, r.err,
                               r.ret, r.b.data_length - data_buffer.data_length,
                               <<>>, Zero64)
    /\ UNCHANGED <<decoded, dec_error, wire, copy, db, dbi, dbres>>

\* GSEncoderDataLength(context)
CallGSEncoderDataLength ==
    /\ Encoding /\ result.op # "GSEncoderDataLength"
    /\ \E r \in {GSEncoderDataLength(data_buffer, enc_error)} :
           /\ enc_error' = r.error
           /\ result' = Call("GSEncoderDataLength", <<>>, data_buffer, NoErr,
                             r.ret, 0, <<>>, Zero64)
    /\ UNCHANGED <<data_buffer, written, decoded, dec_error, wire, copy, db,
                   dbi, dbres>>

\* the most objects the calls that decode one object are made for
MaxDecoded == 3

\* decoder.Decode(data_buffer, object)
CallDecode ==
    /\ ~Crashed
    /\ Len(decoded) < MaxDecoded
    /\ \E r \in {Decode(data_buffer)} :
           /\ data_buffer' = r.b
           /\ decoded' = IF r.err = NoErr THEN Append(decoded, r.v) ELSE decoded
           /\ result' = Call("Decode", <<>>, data_buffer, r.err,
                             IF r.err = NoErr THEN 1 ELSE 0, 0, r.v, r.n)
    /\ UNCHANGED <<written, enc_error, dec_error, wire, copy, db, dbi, dbres>>

\* decoder.Decode(data_buffer, objects)
CallDecodeObjects ==
    /\ ~Crashed
    /\ \E r \in {DecodeObjects(data_buffer)} :
           /\ data_buffer' = r.b
           /\ decoded' = IF r.err = NoErr THEN decoded \o r.v ELSE decoded
           /\ result' = Call("DecodeObjects", <<>>, data_buffer, r.err,
                             IF r.err = NoErr THEN Len(r.v) ELSE 0, 0, r.v, r.n)
    /\ UNCHANGED <<written, enc_error, dec_error, wire, copy, db, dbi, dbres>>

\* GSDecodeObject(context, &object)
CallGSDecodeObject ==
    /\ ~Crashed
    /\ Len(decoded) < MaxDecoded
    /\ \E r \in {GSDecodeObject(data_buffer)} :
           /\ data_buffer' = r.b
           /\ decoded' = IF r.ret = 1 THEN Append(decoded, r.v) ELSE decoded
           /\ dec_error' = r.error
           /\ result' = Call("GSDecodeObject", <<>>, data_buffer, NoErr,
                             r.ret, 0, r.v, Zero64)
    /\ UNCHANGED <<written, enc_error, wire, copy, db, dbi, dbres>>

Next ==
    \/ CallEncode
    \/ CallEncodeObjects
    \/ CallGSEncodeObject
    \/ CallGSEncoderDataLength
    \/ CallDecode
    \/ CallDecodeObjects
    \/ CallGSDecodeObject

Spec == Init /\ [][Next]_vars

----------------------------------------------------------------------------
(* The decoder over octets that were received, and the re-encoding that *)
(* PerformDecodeTest does with what was decoded                          *)

\* the most octets a sender of a later revision adds to a body
MaxExtra == 2

\* the octets such a sender adds, over values that are a tag of no object,
\* a known tag, the tag 32 of an UnknownObject and no VarUint at all
Extras ==
    UNION {[1..k -> {0, 3, 32, 255}] : k \in 1..MaxExtra}

\* the octets of the body of an object as a sender writes them
Body(o) ==
    IF o.type = "HeadIPD1" THEN Serialize(o.ipd, "Float16")
    ELSE SerializeFields(o, EncoderFields(o.type))

\* the record of o with the octets extra added inside the declared body:
\* the length counts them
Inflated(o, extra) ==
    [octets |-> Octets(WriteVarUint(U64(TagValue(o.type)))
                       \o WriteVarUint(U64(Size(Body(o)) + Len(extra)))
                       \o Body(o)) \o extra,
     object |-> o, extra |-> extra, short |-> 0, over |-> "no"]

\* the most octets a declared length falls short of the body by
MaxShort == 2

\* the record of o with a declared length that is k less than the octets
\* of the body that follow it
Shortened(o, k) ==
    [octets |-> Octets(WriteVarUint(U64(TagValue(o.type)))
                       \o WriteVarUint(U64(Size(Body(o)) - k))
                       \o Body(o)),
     object |-> o, extra |-> <<>>, short |-> k, over |-> "no"]

ShortWires ==
    UNION {{Shortened(o, k) : k \in {j \in 1..MaxShort : j <= Size(Body(o))}} :
               o \in Catalog}

\* the record of o with a declared length of 2^64 less the octets before
\* the body (header: the tag alone for Head1 and Object1, whose skip is
\* "length.value - read_length", and the tag and the nine octets of the
\* length for the others), in the 64-bit VarUint shape: read_length plus
\* the octets to skip is then, modulo 2^64, the first octet of the record
Wrapped(o, header) ==
    [octets |-> Octets(WriteVarUint(U64(TagValue(o.type))))
                \o <<226>> \o Sub64(Zero64, U64(header))
                \o Octets(Body(o)),
     object |-> o, extra |-> <<>>, short |-> 0, over |-> "wraps"]

WrapWires ==
    {Wrapped(o, Size(WriteVarUint(U64(TagValue(o.type))))
                + IF o.type \in {"Head1", "Object1"} THEN 0 ELSE 9) :
        o \in Catalog}

\* records with a tag of no known object: the tag 32 of Test_Decode_Unknown,
\* the tags 200, 4 (next to Object1), 0x8003 (next to HeadIPD1) and 2^56,
\* and the tag 0, which is the tag of no object at all; the tag and the
\* length of the data each in the narrowest VarUint shape and in wider ones,
\* which the decoder reads as well
UnknownWires ==
    {[octets |-> tag \o length \o <<0, 5, 0>>, object |-> <<>>,
      extra |-> <<>>, short |-> 0, over |-> "no"] :
        tag \in {<<32>>, <<128, 32>>, <<128, 200>>, <<192, 0, 32>>,
                 <<225, 0, 0, 0, 32>>, <<4>>, <<192, 128, 3>>,
                 <<226, 1, 0, 0, 0, 0, 0, 0, 0>>, <<0>>, <<128, 0>>},
        length \in {<<3>>, <<128, 3>>, <<192, 0, 3>>}}

\* records that announce more than follows them: an unknown tag whose data
\* have a length of 5, and of 2^64 - 1, before 3 octets; a Mesh1 whose
\* vertices have a count of 2^64 - 1 before 3 octets; and a Mesh1 whose
\* triangles have a count of 5 before 3 octets
OverWires ==
    {[octets |-> octets, object |-> <<>>, extra |-> <<>>, short |-> 0,
      over |-> "past"] :
        octets \in
            {<<32, 5, 0, 5, 0>>,
             <<32, 226>> \o Sub64(Zero64, U64(1)) \o <<0, 5, 0>>,
             Octets(WriteVarUint(U64(TagValue("Mesh1"))))
                 \o <<13, 1, 226>> \o Sub64(Zero64, U64(1)) \o <<1, 2, 3>>,
             Octets(WriteVarUint(U64(TagValue("Mesh1"))))
                 \o <<8, 1, 0, 0, 0, 5, 1, 2, 3>>}}

Wires ==
    {Inflated(o, extra) : o \in Catalog, extra \in Extras \cup {<<>>}}
    \cup ShortWires
    \cup WrapWires
    \cup OverWires
    \cup UnknownWires

\* GSDecoderInit(&context, buffer, length) over the octets of a record
InitWire ==
    /\ wire \in Wires
    /\ data_buffer = DataBufferBorrowed(wire.octets, Len(wire.octets))
    /\ written = <<>>
    /\ decoded = <<>>
    /\ result = NoCall
    /\ enc_error = ""
    /\ dec_error = ""
    /\ copy = DataBufferDefault
    /\ InitBuf

\* GSEncodeObject(context, &objects[i]) of PerformDecodeTest: the object
\* that was decoded last is encoded into a buffer of its own
CallReEncode ==
    /\ ~Crashed
    /\ result.op \in {"Decode", "DecodeObjects", "GSDecodeObject"}
    /\ result.count >= 1
    /\ copy = DataBufferDefault
    /\ \E r \in {GSEncodeObject(DataBufferOwned(LargeSize, 0),
                                decoded[Len(decoded)])} :
           /\ copy' = r.b
           /\ enc_error' = r.error
           /\ result' = Call("ReEncode", <<decoded[Len(decoded)]>>,
                             data_buffer, r.err, r.ret, r.b.data_length,
                             <<>>, Zero64)
    /\ UNCHANGED <<data_buffer, written, decoded, dec_error, wire, db, dbi,
                   dbres>>

NextWire ==
    \/ CallDecode
    \/ CallDecodeObjects
    \/ CallGSDecodeObject
    \/ CallReEncode

SpecWire == InitWire /\ [][NextWire]_vars

----------------------------------------------------------------------------
(* The buffer operations, on a DataBuffer (src/src/data_buffer.cpp) and  *)
(* on a DataBuffer<> of the later revision, whose members are those of   *)
(* DataBufferInterface (src/src/common/src/data_buffer_interface.cpp).   *)
(* ReadValue, AdvanceReadLength and ResetReadLength have the same text   *)
(* in both.                                                              *)

\* DataBuffer<Alloc>::FreeBuffer: the lengths are left as they are
DataBufferInterface_FreeBuffer(b) ==
    [b EXCEPT !.buffer = FALSE, !.mem = <<>>]

\* DataBufferInterface::SetBuffer, for a non-null pointer to storage
\* holding m
DataBufferInterface_SetBuffer(b, m, new_data_length, take_ownership) ==
    IF new_data_length > Len(m)
    THEN [b |-> b,
          err |-> Exception("DataBufferException",
                            "Data length larger than the buffer")]
    ELSE [b |-> [DataBufferInterface_FreeBuffer(b) EXCEPT
                     !.buffer = TRUE, !.mem = m, !.buffer_size = Len(m),
                     !.data_length = new_data_length,
                     !.owns_buffer = take_ownership],
          err |-> NoErr]

\* DataBufferInterface::TakeBufferOwnership: read_length is not reset
DataBufferInterface_TakeBufferOwnership(b) ==
    [b EXCEPT !.buffer = FALSE, !.owns_buffer = FALSE, !.buffer_size = 0,
              !.data_length = 0, !.mem = <<>>]

\* DataBufferInterface::SetDataLength
DataBufferInterface_SetDataLength(b, length) ==
    IF length > b.buffer_size
    THEN [b |-> b,
          err |-> Exception("DataBufferException",
                            "Data length larger than the buffer size")]
    ELSE [b |-> [b EXCEPT !.data_length = length,
                          !.read_length = IF length < @ THEN length ELSE @],
          err |-> NoErr]

\* DataBufferInterface::SetValue(const unsigned char *, offset, length): the
\* check comes first, whatever the length, and the pointer is not looked at
DataBufferInterface_SetValue(b, octs, offset) ==
    IF offset + Len(octs) > b.buffer_size THEN [b |-> b, err |-> ErrOverflow]
    ELSE IF Len(octs) = 0 THEN [b |-> b, err |-> NoErr]
    ELSE IF ~b.buffer THEN [b |-> b, err |-> ErrNullPointer]
    ELSE [b |-> [b EXCEPT !.mem =
                    SubSeq(b.mem, 1, offset) \o octs
                    \o SubSeq(b.mem, offset + Len(octs) + 1, Len(b.mem))],
          err |-> NoErr]

\* DataBufferInterface::AppendValue(const unsigned char *, length):
\* data_length is updated before the SetValue it ends with
DataBufferInterface_AppendValue(b, octs) ==
    IF b.data_length + Len(octs) > b.buffer_size
    THEN [b |-> b, err |-> ErrOverflow]
    ELSE DataBufferInterface_SetValue([b EXCEPT !.data_length = @ + Len(octs)],
                                      octs, b.data_length)

\* the size of the buffers the operations are tried on
BufSize == 3

\* the most octets one call appends or reads
MaxCount == 2

\* a call of a buffer operation: what it was given, the two buffers before
\* it, and the exception each of the two threw
BufCall(op, arg, err, erri) ==
    [op |-> op, arg |-> arg, before |-> db, beforei |-> dbi, err |-> err,
     erri |-> erri]

\* a buffer that allocated its storage or one constructed with a null
\* pointer and a size; after a null pointer was accessed nothing is called
InitBuffers ==
    /\ db \in {DataBufferOwned(BufSize, 0), DataBufferNull(BufSize)}
    /\ dbi = db
    /\ dbres = BufCall("none", <<>>, NoErr, NoErr)
    /\ data_buffer = DataBufferDefault
    /\ written = <<>>
    /\ decoded = <<>>
    /\ result = NoCall
    /\ enc_error = ""
    /\ dec_error = ""
    /\ wire = NoWire
    /\ copy = DataBufferDefault

\* data_buffer.AppendValue(value, length)
CallAppendValue ==
    /\ ErrNullPointer \notin {dbres.err, dbres.erri}
    /\ \E octs \in UNION {[1..k -> {7}] : k \in 0..MaxCount} :
           /\ db' = AppendValue(db, octs).b
           /\ dbi' = DataBufferInterface_AppendValue(dbi, octs).b
           /\ dbres' = BufCall("AppendValue", octs, AppendValue(db, octs).err,
                               DataBufferInterface_AppendValue(dbi, octs).err)
    /\ UNCHANGED <<data_buffer, written, decoded, result, enc_error,
                   dec_error, wire, copy>>

\* data_buffer.SetValue(value, offset, length)
CallSetValue ==
    /\ ErrNullPointer \notin {dbres.err, dbres.erri}
    /\ \E octs \in UNION {[1..k -> {7}] : k \in 0..MaxCount},
          offset \in 0..(BufSize + 1) :
           /\ db' = SetValue(db, octs, offset).b
           /\ dbi' = DataBufferInterface_SetValue(dbi, octs, offset).b
           /\ dbres' = BufCall("SetValue", <<octs, offset>>,
                               SetValue(db, octs, offset).err,
                               DataBufferInterface_SetValue(dbi, octs, offset).err)
    /\ UNCHANGED <<data_buffer, written, decoded, result, enc_error,
                   dec_error, wire, copy>>

\* data_buffer.ReadValue(value, length)
CallReadValue ==
    /\ ErrNullPointer \notin {dbres.err, dbres.erri}
    /\ \E length \in 0..MaxCount :
           /\ db' = ReadValue(db, length).b
           /\ dbi' = ReadValue(dbi, length).b
           /\ dbres' = BufCall("ReadValue",
                               <<length, ReadValue(db, length).v,
                                 ReadValue(dbi, length).v>>,
                               ReadValue(db, length).err,
                               ReadValue(dbi, length).err)
    /\ UNCHANGED <<data_buffer, written, decoded, result, enc_error,
                   dec_error, wire, copy>>

\* data_buffer.AdvanceReadLength(count), the count being a std::size_t: 0,
\* 1, ... or one so large that read_length + count wraps
CallAdvanceReadLength ==
    /\ ErrNullPointer \notin {dbres.err, dbres.erri}
    /\ \E count \in {U64(k) : k \in 0..MaxCount}
                    \cup {Sub64(Zero64, U64(1))} :
           /\ db' = AdvanceReadLength(db, count).b
           /\ dbi' = AdvanceReadLength(dbi, count).b
           /\ dbres' = BufCall("AdvanceReadLength", count,
                               AdvanceReadLength(db, count).err,
                               AdvanceReadLength(dbi, count).err)
    /\ UNCHANGED <<data_buffer, written, decoded, result, enc_error,
                   dec_error, wire, copy>>

\* data_buffer.ResetReadLength()
CallResetReadLength ==
    /\ ErrNullPointer \notin {dbres.err, dbres.erri}
    /\ db' = ResetReadLength(db)
    /\ dbi' = ResetReadLength(dbi)
    /\ dbres' = BufCall("ResetReadLength", <<>>, NoErr, NoErr)
    /\ UNCHANGED <<data_buffer, written, decoded, result, enc_error,
                   dec_error, wire, copy>>

\* data_buffer.SetDataLength(length)
CallSetDataLength ==
    /\ ErrNullPointer \notin {dbres.err, dbres.erri}
    /\ \E length \in 0..(BufSize + 1) :
           /\ db' = SetDataLength(db, length).b
           /\ dbi' = DataBufferInterface_SetDataLength(dbi, length).b
           /\ dbres' = BufCall("SetDataLength", length,
                               SetDataLength(db, length).err,
                               DataBufferInterface_SetDataLength(dbi, length).err)
    /\ UNCHANGED <<data_buffer, written, decoded, result, enc_error,
                   dec_error, wire, copy>>

\* data_buffer.SetBuffer(new_buffer, new_buffer_size, new_data_length,
\* take_ownership) with storage of MaxCount octets
CallSetBuffer ==
    /\ ErrNullPointer \notin {dbres.err, dbres.erri}
    /\ \E length \in 0..(MaxCount + 1), take_ownership \in BOOLEAN :
         \E m \in {[i \in 1..MaxCount |-> 9]} :
           /\ db' = SetBuffer(db, m, length, take_ownership).b
           /\ dbi' = DataBufferInterface_SetBuffer(dbi, m, length,
                                                   take_ownership).b
           /\ dbres' = BufCall("SetBuffer", <<m, length, take_ownership>>,
                  SetBuffer(db, m, length, take_ownership).err,
                  DataBufferInterface_SetBuffer(dbi, m, length,
                                                take_ownership).err)
    /\ UNCHANGED <<data_buffer, written, decoded, result, enc_error,
                   dec_error, wire, copy>>

\* data_buffer.TakeBufferOwnership()
CallTakeBufferOwnership ==
    /\ ErrNullPointer \notin {dbres.err, dbres.erri}
    /\ db' = TakeBufferOwnership(db)
    /\ dbi' = DataBufferInterface_TakeBufferOwnership(dbi)
    /\ dbres' = BufCall("TakeBufferOwnership", <<>>, NoErr, NoErr)
    /\ UNCHANGED <<data_buffer, written, decoded, result, enc_error,
                   dec_error, wire, copy>>

NextBuf ==
    \/ CallAppendValue
    \/ CallSetValue
    \/ CallReadValue
    \/ CallAdvanceReadLength
    \/ CallResetReadLength
    \/ CallSetDataLength
    \/ CallSetBuffer
    \/ CallTakeBufferOwnership

SpecBuf == InitBuffers /\ [][NextBuf]_vars

----------------------------------------------------------------------------
(* The primitive serializer and deserializer at work on one buffer: a value *)
(* is written and read back, or octets that were received are read and the  *)
(* value is written again.                                                  *)

\* the longest String or Blob of the short ones
MaxString == 2

\* the values the primitives are written with, each with its type: the
\* 64-bit words on both sides of every power of two that ends a shape, as
\* numbers and as the negatives of numbers; numbers at the ends of the
\* fixed-width ranges; floats of every exponent around the half-float range
\* (103..142) with the mantissas around a rounding step; the short Strings
\* and Blobs and a Blob whose length takes two octets.  The octets received
\* are those of every half float
Primitives(kind) ==
    LET Pow(k) == [i \in 1..8 |-> IF i = 8 - (k \div 8) THEN 2^(k % 8) ELSE 0]
        Near(w) == {Sub64(w, U64(1)), w, Add64(w, U64(1))}
        Words == UNION {Near(Pow(k)) \cup Near(Sub64(Zero64, Pow(k))) :
                        k \in {0, 6, 7, 13, 14, 20, 21, 31, 32, 63}}
        Halves == {<<0, 0>>, <<0, 65535>>, <<32767, 65535>>, <<32768, 0>>,
                   <<65535, 65535>>, <<16457, 0>>}
        Mantissas == {0, 1, 4095, 4096, 4097, 8191, 8192, 12288, 4194304,
                      6291456, 8380416, 8384511, 8384512, 8388607}
        Floats == {<<sign * 32768 + e * 128 + m \div 65536, m % 65536>> :
                   sign \in {0, 1}, m \in Mantissas,
                   e \in {0, 82, 102, 103, 104, 111, 112, 113, 114, 127, 141,
                          142, 143, 254, 255}}
        Strings == UNION {[1..k -> {0, 65, 255}] : k \in 0..MaxString}
                   \cup {[i \in 1..(128 + MaxString) |-> 7]}
        Of(values) ==
            {[kind |-> kind, value |-> v, octets |-> <<>>] : v \in values}
        Tails == {<<0, 0, 0, 0, 0, 0, 0, 5>>, <<128, 0, 0, 0, 0, 0, 0, 1>>,
                  <<255, 255, 255, 255, 255, 255, 255, 255>>}
        Received(octets, blank) ==
            {[kind |-> kind, value |-> blank, octets |-> o] : o \in octets}
    IN  CASE kind \in {"VarUint", "VarInt"} ->
                Of(Words) \cup Received({<<first>> \o tail :
                                            first \in 0..255, tail \in Tails},
                                         <<>>)
          [] kind \in {"Uint64", "Int64", "Float64"} -> Of(Words)
          [] kind = "Uint8" -> Of({0, 1, 127, 128, 255})
          [] kind = "Int8" -> Of({-128, -1, 0, 1, 127})
          [] kind = "Uint16" -> Of({0, 255, 256, 32768, 65535})
          [] kind = "Int16" -> Of({-32768, -256, -1, 0, 255, 32767})
          [] kind \in {"Uint32", "Int32"} -> Of(Halves)
          [] kind = "Float32" -> Of(Halves \cup Floats)
          [] kind = "Boolean" ->
                Of({0, 1}) \cup Received({<<octet>> : octet \in 0..255}, 0)
          [] kind \in {"String", "Blob"} -> Of(Strings)
          [] kind = "Float16" ->
                Of(Floats) \cup Received({Be16(h) : h \in 0..65535}, <<>>)

InitPrimitive ==
    /\ \E kind \in {"Uint8", "Uint16", "Uint32", "Uint64", "Int8", "Int16",
                   "Int32", "Int64", "VarUint", "VarInt", "Float16",
                   "Float32", "Float64", "Boolean", "String", "Blob"} :
           wire \in Primitives(kind)
    /\ db = [DataBufferOwned(LargeSize, 0) EXCEPT
                 !.mem = wire.octets \o SubSeq(@, Len(wire.octets) + 1, Len(@)),
                 !.data_length = Len(wire.octets)]
    /\ dbi = DataBufferDefault
    /\ dbres = NoCall
    /\ data_buffer = DataBufferDefault
    /\ written = <<>>
    /\ decoded = <<>>
    /\ result = NoCall
    /\ enc_error = ""
    /\ dec_error = ""
    /\ copy = DataBufferDefault

\* serializer.Write(data_buffer, value): of the value given or, where octets
\* were received, of the value that was read from them
CallWrite ==
    /\ written = <<>>
    /\ wire.octets # <<>> => decoded # <<>>
    /\ \E value \in {IF wire.octets = <<>> THEN wire.value ELSE decoded[1]} :
        \E build \in {"nonzero", "lowbit", "octet"} :
         \E chunks \in {IF wire.kind = "Boolean"
                         THEN WriteBoolean(value, build)
                         ELSE Write(value, wire.kind)} :
          \E r \in {AppendCalls(db, chunks)} :
           /\ db' = r.b
           /\ written' = <<value>>
           /\ result' = Call("Write", value, db, r.err, 0, Size(chunks), <<>>,
                             Zero64)
    /\ UNCHANGED <<data_buffer, decoded, enc_error, dec_error, wire, copy,
                   dbi, dbres>>

\* deserializer.Read(data_buffer, value), into a value that was default
\* constructed, of the type that was written or received
CallRead ==
    /\ decoded = <<>>
    /\ wire.octets = <<>> => written # <<>> /\ result.err = NoErr
    /\ \E r \in {CASE wire.kind = "VarUint" -> ReadVarUint(db)
                   [] wire.kind = "VarInt" -> ReadVarInt(db)
                   [] wire.kind \in {"String", "Blob"} -> ReadBlob(db)
                   [] OTHER -> Read(db, wire.kind)} :
           /\ db' = r.b
           /\ decoded' = IF r.err = NoErr THEN <<r.v>> ELSE <<>>
           /\ dbres' = Call("Read", wire.kind, db, r.err, 0, r.n, r.v, Zero64)
    /\ UNCHANGED <<data_buffer, written, result, enc_error, dec_error, wire,
                   copy, dbi>>

NextPrimitive == CallWrite \/ CallRead

SpecPrimitive == InitPrimitive /\ [][NextPrimitive]_vars

----------------------------------------------------------------------------
(* Properties of the encoder and the decoder, checked under Spec *)

\* the call was Encode or GSEncodeObject of a single object
OneObjectCall == result.op \in {"Encode", "GSEncodeObject"}

\* the octets the last call appended
Appended1 ==
    SubSeq(data_buffer.mem, result.before.data_length + 1,
           data_buffer.data_length)

\* tag + length prefix + body of the record of an object, as section 4.6 of
\* the specification lays it out
WireSize(o) ==
    CASE o.type = "HeadIPD1" -> Size(Serialize(o, "HeadIPD1"))
      [] o.type = "UnknownObject" ->
            Size(WriteVarUint(o.tag)) + Size(Write(o.data, "Blob"))
      [] OTHER ->
            Size(WriteVarUint(U64(TagValue(o.type))))
            + Size(WriteVarUint(U64(
                  Size(SerializeFields(o, EncoderFields(o.type))))))
            + Size(SerializeFields(o, EncoderFields(o.type)))

\* C1: every object of the catalog, a top-level HeadIPD1 included, encoded
\* into an empty buffer with room for it is appended as one record, and
\* decoding that record yields an object equal to the original member by
\* member.
C1_RoundTrip ==
    /\ (/\ result.op = "Encode"
        /\ result.arg[1] \in Catalog
        /\ result.before = DataBufferOwned(LargeSize, 0))
       => (result.err = NoErr /\ result.count = 1)
    /\ (/\ result.op = "Decode"
        /\ result.before.read_length = 0
        /\ written # <<>>
        /\ written[1] \in Catalog)
       => (result.err = NoErr /\ result.value = written[1])

\* C2: a sequence of catalog objects handed to the encoder is encoded (the
\* call returns), decoding the buffer in one call yields the objects that
\* were written, in their order, and decoding one object at a time ends
\* with Eof when exactly the written objects were returned, the read
\* position then being the data length.  The buffer is one that has storage.
C2_StreamDrain ==
    (\A i \in DOMAIN written : written[i] \in Catalog) =>
        /\ (/\ result.op = "EncodeObjects"
            /\ result.before.buffer
            /\ \A i \in DOMAIN result.arg : result.arg[i] \in Catalog)
           => result.err = NoErr
        /\ (result.op = "DecodeObjects" /\ result.before.read_length = 0)
           => (/\ result.err = NoErr
               /\ result.value = written
               /\ data_buffer.read_length = data_buffer.data_length)
        /\ (result.op = "GSDecodeObject" /\ result.count = 0)
           => (/\ decoded = written
               /\ data_buffer.read_length = data_buffer.data_length)

\* C3: encoding one object is atomic.  When the record does not fit into
\* what is left of the buffer the call returns {0, 0} (0 through the API)
\* and the buffer is as it was; otherwise either the whole record was
\* appended or the data length is what it was.
C3_EncodeAtomic ==
    (OneObjectCall /\ result.arg[1].type # "Invalid") =>
        IF result.before.data_length + WireSize(result.arg[1])
               > result.before.buffer_size
        THEN /\ result.err = NoErr
             /\ result.count = 0
             /\ result.octets = 0
             /\ data_buffer = result.before
        ELSE \/ data_buffer.data_length = result.before.data_length
             \/ /\ result.count = 1
                /\ Len(Appended1) = WireSize(result.arg[1])
                /\ Data(data_buffer) = Data(result.before) \o Appended1

\* C4: encoding a vector writes its elements in order and stops at the
\* first that does not fit: the call returns, the buffer holds the records
\* of the first objectCount elements, octetCount is the sum of their sizes,
\* and when objectCount is smaller than the vector the next element is one
\* that did not fit.  The buffer is one that has storage.
C4_VectorStops ==
    (result.op = "EncodeObjects" /\ result.before.buffer) =>
        /\ result.err = NoErr
        /\ result.count <= Len(result.arg)
        /\ written = SubSeq(result.arg, 1, result.count)
        /\ result.octets = Len(Appended1)
        /\ result.before.data_length + result.octets <= result.before.buffer_size
        /\ result.count < Len(result.arg) =>
              result.before.data_length + result.octets
                  + WireSize(result.arg[result.count + 1])
              > result.before.buffer_size

RECURSIVE Records(_)
\* the number of records between the read position of b and the end of its
\* data when each is a tag, a length and as many octets as the length says;
\* -1 when the octets are not such a sequence
Records(b) ==
    IF b.read_length = b.data_length THEN 0
    ELSE LET tag == ReadVarUint(b)
             length == ReadVarUint(tag.b)
             end == length.b.read_length + ToNat(length.v)
             rest == Records([length.b EXCEPT !.read_length = end])
         IN  IF tag.err # NoErr THEN -1
             ELSE IF length.err # NoErr \/ ~IsSmall(length.v) THEN -1
             ELSE IF end > b.data_length \/ rest = -1 THEN -1
             ELSE rest + 1

\* C7: in every record the encoder appends the length field is the number
\* of octets that follow it in the record, also for a Head1 with an ipd
\* (whose HeadIPD1 is a record of its own at the end of the body) and for
\* an Object1 with a parent, and the octet count that is returned is the
\* increase of the data length.
C7_LengthField ==
    (/\ result.op \in {"Encode", "EncodeObjects", "GSEncodeObject"}
     /\ result.err = NoErr
     /\ result.count >= 0) =>
        /\ result.octets = data_buffer.data_length - result.before.data_length
        /\ Records(DataBufferBorrowed(Appended1, Len(Appended1)))
               = result.count
        /\ (/\ result.count = 1
            /\ Len(result.arg) = 1
            /\ result.arg[1].type = "Head1"
            /\ result.arg[1].ipd # <<>>) =>
               Records(DataBufferBorrowed(
                   SubSeq(Appended1, Len(Appended1) - 5, Len(Appended1)), 6))
               = 1

\* C7 happens: a Head1 with an ipd and an Object1 with a parent were
\* appended by one call
C7_Witness ==
    /\ result.op = "EncodeObjects"
    /\ result.arg = <<Head1WithIpd, Object1WithParent>>
    /\ result.count = 2
    /\ result.octets > 0
    /\ data_buffer.data_length = result.octets

\* C9: encoding an object whose tag has the raw value 0, an UnknownObject
\* that carries the tag 0 included, raises the exception of an invalid tag
\* and appends nothing.
C9_TagZeroRejected ==
    (/\ OneObjectCall
     /\ result.before.buffer
     /\ result.arg[1].type = "UnknownObject"
     /\ result.arg[1].tag = Zero64) =>
        /\ data_buffer = result.before
        /\ result.op = "Encode" =>
              result.err = Exception("EncoderException",
                                     "Invalid object tag value")
        /\ result.op = "GSEncodeObject" => result.count = -1

\* the members of the body of an Object1 as section 4.6 of the
\* specification lists them
Object1Body ==
    << <<"id", "VarUint">>, <<"position", "Loc1">>, <<"rotation", "Rot1">>,
       <<"scale", "Loc1">>, <<"parent", "optional<VarUint>">> >>

\* C10: the record of an Object1 is the tag 3, the length of the body and
\* the body id, position, rotation, scale and the parent when there is one:
\* no time is written.
C10_Object1Body ==
    (/\ result.op = "Encode"
     /\ result.arg[1].type = "Object1"
     /\ result.count = 1) =>
        Appended1 =
            Octets(WriteVarUint(U64(TagValue("Object1")))
                   \o WriteVarUint(U64(Size(
                          SerializeFields(result.arg[1], Object1Body))))
                   \o SerializeFields(result.arg[1], Object1Body))

\* C21: after any call of the API that succeeds on a context (GSEncodeObject
\* returning 1 or 0, GSEncoderDataLength returning the length,
\* GSDecodeObject returning 1 or 0), the error text of that context is empty.
C21_ErrorCleared ==
    /\ (result.op = "GSEncodeObject" /\ result.count \in {0, 1}) =>
           enc_error = ""
    /\ result.op = "GSEncoderDataLength" => enc_error = ""
    /\ (result.op = "GSDecodeObject" /\ result.count \in {0, 1}) =>
           dec_error = ""

----------------------------------------------------------------------------
(* Properties of the decoder over received octets, checked under SpecWire *)

\* the tag and the length that open the octets are VarUints in the shape
\* the encoder would choose for their values
Narrowest(octets) ==
    LET tag == ReadVarUint(DataBufferBorrowed(octets, Len(octets)))
        length == ReadVarUint(tag.b)
    IN  /\ tag.err = NoErr
        /\ length.err = NoErr
        /\ tag.n = Size(WriteVarUint(tag.v))
        /\ length.n = Size(WriteVarUint(length.v))

\* the record of an unknown tag, which is not the tag 0 that the decoder
\* refuses, was decoded into an UnknownObject and that object was encoded
\* again
Reencoded ==
    /\ result.op = "ReEncode"
    /\ wire.object = <<>>
    /\ wire.over = "no"
    /\ ReadVarUint(DataBufferBorrowed(wire.octets, Len(wire.octets))).v # Zero64
    /\ Len(decoded) = 1
    /\ result.arg[1].type = "UnknownObject"

\* C5 as it is stated: for any tag that is not a known one, decoding a
\* record into an UnknownObject and encoding that object again reproduces
\* the octets that were read.
C5_UnknownFidelity ==
    Reencoded => (result.count = 1 /\ Data(copy) = wire.octets)

\* C5 restated: the octets are reproduced when the tag and the length of
\* the record were in the narrowest VarUint shape; the decoder reads wider
\* shapes too and the encoder writes the narrowest only.
C5_NarrowestFidelity ==
    (Reencoded /\ Narrowest(wire.octets)) =>
        (result.count = 1 /\ Data(copy) = wire.octets)

\* C5 happens: the record 80 C8 03 00 05 00, whose tag 200 takes two octets
\* in the narrowest shape, was decoded and encoded again
C5_Witness ==
    /\ Reencoded
    /\ wire.octets = <<128, 200, 3, 0, 5, 0>>
    /\ result.arg[1] = UnknownOf(U64(200), <<0, 5, 0>>)
    /\ copy.data_length = 6

\* one object was decoded from the start of a record of a known type
DecodedKnown ==
    /\ result.op \in {"Decode", "GSDecodeObject"}
    /\ result.before.read_length = 0
    /\ wire.object # <<>>
    /\ wire.short = 0
    /\ wire.over = "no"

\* the members the decoder must find in every record of the type have the
\* values they have in the object o
RequiredOf(value, o) ==
    /\ value.type = o.type
    /\ \A i \in DOMAIN DecoderFields(o.type) :
           value[DecoderFields(o.type)[i][1]] = o[DecoderFields(o.type)[i][1]]

\* C6 as it is stated: for every known type, a record with arbitrary octets
\* added inside the declared body decodes without error and its required
\* members have the values they have without the added octets.
C6_TrailingBytes ==
    DecodedKnown =>
        /\ result.err = NoErr
        /\ result.count = 1
        /\ RequiredOf(result.value, wire.object)

\* the type has no optional trailer, or the optional trailer is there
TrailerRead(o) ==
    \/ o.type \in {"Hand1", "Hand2", "Mesh1", "HeadIPD1"}
    \/ o.type = "Head1" /\ o.ipd # <<>>
    \/ o.type = "Object1" /\ o.parent # <<>>

\* C6 restated: the added octets are skipped when the type has no optional
\* trailer or the trailer precedes them; the object decoded is then the
\* one without the added octets.  After a Head1 without ipd or an Object1
\* without parent the added octets are read as the trailer.
C6_TrailingBytesSkipped ==
    (DecodedKnown /\ TrailerRead(wire.object)) =>
        /\ result.err = NoErr
        /\ result.count = 1
        /\ result.value = wire.object

\* C6 happens: a Head1 with an ipd and two octets after it was decoded
C6_Witness ==
    /\ DecodedKnown
    /\ wire.object = Head1WithIpd
    /\ wire.extra = <<255, 0>>
    /\ result.op = "Decode"
    /\ result.count = 1

\* C22: after a Decode of one object that returned, made at the first octet
\* of a received record, read_length has advanced by the count returned,
\* and that count is the size of the tag, of the length and of the declared
\* body together, that is the whole of the record received.
C22_ReadAdvance ==
    (/\ result.op = "Decode"
     /\ result.err = NoErr
     /\ result.before.read_length = 0
     /\ wire.short = 0
     /\ wire.over = "no") =>
        /\ U64(data_buffer.read_length) = result.n
        /\ result.n = U64(Len(wire.octets))

\* the length a received record of a known type declares, when it is not
\* one of those whose length is near 2^64
DeclaredLength(w) == Size(Body(w.object)) + Len(w.extra) - w.short

\* the octets of the tag and of the length of a received record of a known
\* type
HeaderSize(w) ==
    Size(WriteVarUint(U64(TagValue(w.object.type))))
    + Size(WriteVarUint(U64(DeclaredLength(w))))

\* the octets the required members of o take in a body
RequiredSize(o) ==
    Size(Body(CASE o.type = "Head1"   -> [o EXCEPT !.ipd = <<>>]
                [] o.type = "Object1" -> [o EXCEPT !.parent = <<>>]
                [] OTHER              -> o))

\* the two length errors of the decoder: the one thrown before the members
\* are read when the declared length is 0, and the one thrown after them
LengthErrors ==
    {Exception("DecoderException", "Invalid object length"),
     Exception("DecoderException", "Encoded object length error")}

\* C23: a record of a known type whose declared length is less than the
\* octets its required members take is rejected with a length error by
\* Decode, by the Decode of a vector and by GSDecodeObject; and no Decode
\* returns after it has read more octets of the body than the record
\* declares.
C23_LengthMismatch ==
    /\ (/\ result.op \in {"Decode", "DecodeObjects", "GSDecodeObject"}
        /\ result.before.read_length = 0
        /\ wire.object # <<>>
        /\ wire.over = "no"
        /\ DeclaredLength(wire) < RequiredSize(wire.object)) =>
           /\ result.count < 1
           /\ decoded = <<>>
           /\ result.op # "GSDecodeObject" => result.err \in LengthErrors
           /\ result.op = "GSDecodeObject" =>
                  /\ result.count = -1
                  /\ dec_error \in {e.what : e \in LengthErrors}
    /\ (/\ result.op \in {"Decode", "GSDecodeObject"}
        /\ result.before.read_length = 0
        /\ wire.object # <<>>
        /\ wire.over = "no"
        /\ result.count = 1) =>
           data_buffer.read_length - HeaderSize(wire) <= DeclaredLength(wire)

\* C23 happens: the Hand1 record whose length says one octet less than the
\* members take was rejected after the members were read and the Head1
\* with an ipd whose length ends inside the ipd was rejected as well
C23_Witness ==
    /\ result.op = "Decode"
    /\ result.before.read_length = 0
    /\ wire.short = 1
    /\ wire.object \in {TheHand1, Head1WithIpd}
    /\ result.err = Exception("DecoderException", "Encoded object length error")
    /\ data_buffer.read_length >= Len(wire.octets) - 1

\* one object was decoded from the start of a Head1 record that has octets
\* after its required members and these are not a HeadIPD1 record
Head1WithOther ==
    /\ result.op = "Decode"
    /\ DecodedKnown
    /\ wire.object.type = "Head1"
    /\ wire.object.ipd = <<>>
    /\ wire.extra # <<>>

ErrUnexpectedOptional ==
    Exception("const char *",
              "Unexpected optional object type found decoding Head1")

\* C24 as it is stated: when octets remain after the required members of a
\* Head1 and the record that follows has another tag than that of a
\* HeadIPD1, the Decode throws the unexpected-optional error and decodes
\* no object.
C24_UnexpectedOptional ==
    Head1WithOther =>
        /\ result.err = ErrUnexpectedOptional
        /\ decoded = <<>>

\* the octets are a whole record of an UnknownObject with the tag 32,
\* possibly followed by more octets
NestedUnknown(octets) ==
    /\ Len(octets) >= 2
    /\ octets[1] = 32
    /\ octets[2] < 128
    /\ Len(octets) >= 2 + octets[2]

\* C24 restated: the Decode of such a Head1 always throws and decodes no
\* object; it throws the unexpected-optional error when the octets that
\* follow decode to an object that is not a HeadIPD1, and the exception of
\* the nested Decode (tag 0, a malformed VarUint, a length of 0, a read past
\* the end) when they do not decode.
C24_NestedMustBeHeadIPD1 ==
    Head1WithOther =>
        /\ result.err # NoErr
        /\ decoded = <<>>
        /\ NestedUnknown(wire.extra) => result.err = ErrUnexpectedOptional
        /\ ~NestedUnknown(wire.extra) => IsStdException(result.err)

\* C24 happens: a Head1 followed inside its body by the record 20 00 of an
\* UnknownObject was refused with the unexpected-optional error
C24_Witness ==
    /\ Head1WithOther
    /\ wire.extra = <<32, 0>>
    /\ result.err = ErrUnexpectedOptional
    /\ result.count = 0

----------------------------------------------------------------------------
(* Properties of the buffer operations, checked under SpecBuf *)

\* C8: after any sequence of appends, reads, advances and resets of the
\* read position, SetDataLength, SetBuffer and TakeBufferOwnership,
\* whether they succeeded or threw, a buffer of either revision has
\* 0 <= read_length <= data_length <= buffer_size.
C8_Counters ==
    /\ 0 <= db.read_length
    /\ db.read_length <= db.data_length
    /\ db.data_length <= db.buffer_size
    /\ 0 <= dbi.read_length
    /\ dbi.read_length <= dbi.data_length
    /\ dbi.data_length <= dbi.buffer_size

\* what C16 says of one append: before and after are the buffer before and
\* after the call, err what the call threw
AppendAsStated(before, after, err, octs) ==
    /\ before.data_length + Len(octs) > before.buffer_size =>
           /\ err = ErrOverflow
           /\ after = before
    /\ err = NoErr =>
           /\ after.data_length = before.data_length + Len(octs)
           /\ before.buffer =>
                  after.mem = SubSeq(before.mem, 1, before.data_length) \o octs
                              \o SubSeq(before.mem, after.data_length + 1,
                                        Len(before.mem))
           /\ after = [before EXCEPT !.data_length = after.data_length,
                                     !.mem = after.mem]

\* C16: an append that would make data_length exceed buffer_size throws the
\* overflow exception and leaves data_length, read_length and the octets
\* stored as they were; an append that returns has written the octets at
\* the old data_length, has increased data_length by their count and has
\* changed nothing else.  For the buffers of both revisions.
C16_AppendOverflow ==
    dbres.op = "AppendValue" =>
        /\ AppendAsStated(dbres.before, db, dbres.err, dbres.arg)
        /\ AppendAsStated(dbres.beforei, dbi, dbres.erri, dbres.arg)

\* C16 happens: two octets did not fit after the two that the buffer of
\* three held, and one octet did fit
C16_Witness ==
    \/ /\ dbres.op = "AppendValue"
       /\ Len(dbres.arg) = 2
       /\ dbres.before.data_length = 2
       /\ dbres.before.buffer_size = 3
       /\ dbres.err = ErrOverflow
       /\ db.data_length = 2
    \/ /\ dbres.op = "AppendValue"
       /\ Len(dbres.arg) = 1
       /\ dbres.before.data_length = 2
       /\ dbres.before.buffer_size = 3
       /\ dbres.err = NoErr
       /\ Data(db)[3] = 7

\* what C17 says of one read of n octets that gave the octets v
ReadAsStated(before, after, err, n, v) ==
    IF before.read_length + n <= before.data_length
    THEN /\ err = NoErr
         /\ v = SubSeq(before.mem, before.read_length + 1,
                       before.read_length + n)
         /\ after = [before EXCEPT !.read_length = @ + n]
    ELSE /\ err = ErrReadPastEnd
         /\ after = before

\* C17: a read of n octets succeeds only when read_length + n <=
\* data_length, then gives the octets at [read_length, read_length + n) and
\* advances read_length by n; otherwise it throws the read-past-end
\* exception and read_length stays where it was.  For the buffers of both
\* revisions.
C17_ReadPastEnd ==
    dbres.op = "ReadValue" =>
        /\ ReadAsStated(dbres.before, db, dbres.err, dbres.arg[1], dbres.arg[2])
        /\ ReadAsStated(dbres.beforei, dbi, dbres.erri, dbres.arg[1],
                        dbres.arg[3])

\* C18: a ReadValue, an AppendValue or a SetValue of length 0 changes
\* nothing and throws nothing, whatever the offset, the counters and the
\* storage of the buffer.  For the buffers of both revisions.
C18_ZeroLength ==
    (\/ dbres.op = "ReadValue" /\ dbres.arg[1] = 0
     \/ dbres.op = "AppendValue" /\ dbres.arg = <<>>
     \/ dbres.op = "SetValue" /\ dbres.arg[1] = <<>>) =>
        /\ dbres.err = NoErr
        /\ db = dbres.before
        /\ dbres.erri = NoErr
        /\ dbi = dbres.beforei

\* what C19 says of one SetDataLength(n)
SetDataLengthAsStated(before, after, err, n) ==
    /\ n > before.buffer_size =>
           err.type = "DataBufferException" /\ after = before
    /\ (~before.buffer /\ n > 0) =>
           err.type = "DataBufferException" /\ after = before
    /\ err = NoErr =>
           after = [before EXCEPT
                       !.data_length = n,
                       !.read_length = IF n < @ THEN n ELSE @]

\* C19: SetDataLength(n) throws when n > buffer_size, is rejected for n > 0
\* on a buffer without storage, and when it returns data_length is n and
\* read_length is the lesser of the old read_length and n.  For the buffers
\* of both revisions.
C19_SetDataLength ==
    dbres.op = "SetDataLength" =>
        /\ SetDataLengthAsStated(dbres.before, db, dbres.err, dbres.arg)
        /\ SetDataLengthAsStated(dbres.beforei, dbi, dbres.erri, dbres.arg)

\* C20: TakeBufferOwnership leaves the buffer without storage, not owning
\* any, and with buffer_size, data_length and read_length 0.  For the
\* buffers of both revisions.
C20_TakeOwnership ==
    dbres.op = "TakeBufferOwnership" =>
        /\ db = DataBufferDefault
        /\ dbi = DataBufferDefault

----------------------------------------------------------------------------
(* Properties of the primitives, checked under SpecPrimitive *)

\* the word of 2^k
TwoTo(k) == [i \in 1..8 |-> IF i = 8 - (k \div 8) THEN 2^(k % 8) ELSE 0]

\* the value given was written and the write returned
WroteGiven(kinds) ==
    /\ wire.octets = <<>>
    /\ wire.kind \in kinds
    /\ result.op = "Write"
    /\ result.err = NoErr

\* the octets of the narrowest shape of a VarUint: w < 2^7, 2^14, ...
VarUintOctets(w) ==
    CASE Lt64(w, TwoTo(7)) -> 1
      [] Lt64(w, TwoTo(14)) -> 2
      [] Lt64(w, TwoTo(21)) -> 3
      [] Lt64(w, TwoTo(32)) -> 5
      [] OTHER -> 9

\* -2^(k-1) <= w < 2^(k-1) for the signed number that the word w stands for
FitsSigned(w, k) == Lt64(Add64(w, TwoTo(k - 1)), TwoTo(k))

\* the octets of the narrowest shape of a VarInt
VarIntOctets(w) ==
    CASE FitsSigned(w, 7) -> 1
      [] FitsSigned(w, 14) -> 2
      [] FitsSigned(w, 21) -> 3
      [] FitsSigned(w, 32) -> 5
      [] OTHER -> 9

\* C11: a VarUint is written in 1, 2, 3, 5 or 9 octets exactly when its
\* value lies in [0,2^7), [2^7,2^14), [2^14,2^21), [2^21,2^32), [2^32,2^64),
\* and a VarInt in 1, 2, 3, 5 or 9 octets exactly when its value first fits
\* the signed range of 7, 14, 21, 32 or 64 bits: the count the write returns
\* and the octets it appends are those of the narrowest shape.
C11_NarrowestShape ==
    /\ WroteGiven({"VarUint"}) =>
           /\ result.octets = VarUintOctets(wire.value)
           /\ db.data_length = VarUintOctets(wire.value)
    /\ WroteGiven({"VarInt"}) =>
           /\ result.octets = VarIntOctets(wire.value)
           /\ db.data_length = VarIntOctets(wire.value)

\* C11 happens: the VarInt 64 = 2^6, the first value past the 7-bit signed
\* range, was written in two octets
C11_Witness ==
    /\ WroteGiven({"VarInt"})
    /\ wire.value = U64(64)
    /\ result.octets = 2
    /\ Data(db) = <<128, 64>>

\* the value given was written and then read
ReadBack(kinds) == WroteGiven(kinds) /\ dbres.op = "Read"

\* C12: for every value of a fixed-width integer type, of VarUint, VarInt,
\* Float32, Float64 and Boolean, the read of what was written does not
\* fail, yields the value that was written and returns the count of octets
\* that the write returned.
C12_PrimitiveRoundTrip ==
    ReadBack({"Uint8", "Uint16", "Uint32", "Uint64", "Int8", "Int16", "Int32",
              "Int64", "VarUint", "VarInt", "Float32", "Float64",
              "Boolean"}) =>
        /\ dbres.err = NoErr
        /\ dbres.value = wire.value
        /\ dbres.octets = result.octets
        /\ db.read_length = db.data_length

\* C12 happens: the VarInt -65 was written as BF BF and read back
C12_Witness ==
    /\ ReadBack({"VarInt"})
    /\ wire.value = Sub64(Zero64, U64(65))
    /\ Data(db) = <<191, 191>>
    /\ dbres.value = <<255, 255, 255, 255, 255, 255, 255, 191>>
    /\ dbres.octets = 2

\* C13: for every octet sequence s that fits the buffer, the read of s
\* written as a String or as a Blob does not fail, yields s and returns the
\* count that the write returned, the octets of the length and those of s.
C13_StringRoundTrip ==
    ReadBack({"String", "Blob"}) =>
        /\ dbres.err = NoErr
        /\ dbres.value = wire.value
        /\ dbres.octets = result.octets
        /\ dbres.octets = VarUintOctets(U64(Len(wire.value))) + Len(wire.value)

\* C13 happens: a Blob of 128 octets or more, whose length takes two
\* octets, was written and read back
C13_Witness ==
    /\ ReadBack({"Blob"})
    /\ Len(wire.value) >= 128
    /\ dbres.value = wire.value
    /\ dbres.octets = Len(wire.value) + 2

\* the half float received was converted to a float and the float back
Reconverted ==
    /\ wire.octets # <<>>
    /\ wire.kind = "Float16"
    /\ result.op = "Write"

\* a NaN (exponent 31, mantissa not 0) other than the quiet NaN 7E00 | sign
NonCanonicalNaN(octets) ==
    /\ octets[1] % 128 >= 124
    /\ <<octets[1] % 4, octets[2]>> # <<0, 0>>
    /\ <<octets[1] % 128, octets[2]>> # <<126, 0>>

\* C14: FloatToHalfFloat(HalfFloatToFloat(h)) = h for every half float h
\* that is a zero, a subnormal, a normal, an infinity or the quiet NaN 7E00
\* of either sign: the octets written for the float that was read are the
\* octets received.
C14_HalfRoundTrip ==
    (Reconverted /\ ~NonCanonicalNaN(wire.octets)) =>
        /\ result.err = NoErr
        /\ Data(db) = wire.octets \o wire.octets

\* C14 happens: the largest subnormal half float 83FF of negative sign was
\* read as the float B87FC000 and written again
C14_Witness ==
    /\ Reconverted
    /\ wire.octets = <<131, 255>>
    /\ decoded = << <<47231, 49152>> >>
    /\ Data(db) = <<131, 255, 131, 255>>

\* the biased exponent and the 23-bit mantissa of a float
ExponentOf(f) == (f[1] % 32768) \div 128
MantissaOf(f) == (f[1] % 128) * 65536 + f[2]

\* a finite float whose magnitude is in the range of the half floats, from
\* the least subnormal 2^-24 (exponent 103) to the greatest normal 65504
\* (exponent 142, mantissa 7FE000)
InHalfRange(f) ==
    /\ ExponentOf(f) \in 103..142
    /\ ExponentOf(f) = 142 => MantissaOf(f) <= 8380416

\* the magnitude of a float g counted in quarters of the last place of a
\* float of exponent ef, or -1 when g is so far from such a float that the
\* count is no integer below 2^30
FloatUnits(g, ef) ==
    IF ExponentOf(g) = 0 /\ MantissaOf(g) = 0 THEN 0
    ELSE IF ExponentOf(g) - ef + 2 \in 0..4
    THEN (8388608 + MantissaOf(g)) * 2^(ExponentOf(g) - ef + 2)
    ELSE -1

\* the magnitude (1024 + m) * 2^(e - 25), or m * 2^-24 when e = 0, of the
\* finite half float of magnitude bits hm, counted in the same unit
\* 2^(ef - 152), or -1 when it is too far to be counted
HalfUnits(hm, ef) ==
    LET e == hm \div 1024
        m == hm % 1024
    IN  IF e = 0
        THEN IF m = 0 THEN 0
             ELSE IF 128 - ef \in 0..25 /\ m < 2^(30 - (128 - ef))
             THEN m * 2^(128 - ef)
             ELSE -1
        ELSE IF e - ef + 127 \in 0..19 THEN (1024 + m) * 2^(e - ef + 127)
        ELSE -1

\* no half float is nearer to the float f than the finite half float h of
\* the sign of f: f is not past the middle between h and the half float
\* next above it, nor before the middle between h and the one next below
NearestHalf(h, f) ==
    LET hm == h % 32768
        ef == ExponentOf(f)
        F  == FloatUnits(f, ef)
        U  == HalfUnits(hm, ef)
    IN  /\ h \div 32768 = f[1] \div 32768
        /\ hm < 31744
        /\ U >= 0
        /\ (hm + 1 < 31744 /\ HalfUnits(hm + 1, ef) >= 0) =>
               2 * F <= U + HalfUnits(hm + 1, ef)
        /\ (hm > 0 /\ HalfUnits(hm - 1, ef) >= 0) =>
               2 * F >= U + HalfUnits(hm - 1, ef)

\* C15: for every finite float f whose magnitude is in the range of the
\* normal and the subnormal half floats, HalfFloatToFloat(FloatToHalfFloat(
\* f)) is the value of the half float nearest to f: the float read back
\* from what was written for f is the value of the half float written,
\* and no half float is nearer to f.
C15_NearestHalf ==
    (ReadBack({"Float16"}) /\ InHalfRange(wire.value)) =>
        /\ dbres.err = NoErr
        /\ dbres.value[1] \div 32768 = wire.value[1] \div 32768
        /\ FloatUnits(dbres.value, ExponentOf(wire.value))
             = HalfUnits((db.mem[1] * 256 + db.mem[2]) % 32768,
                         ExponentOf(wire.value))
        /\ NearestHalf(db.mem[1] * 256 + db.mem[2], wire.value)

\* octets that were received were read as a value of one of the kinds, from
\* the first of them on
ReadReceived(kinds) ==
    /\ wire.octets # <<>>
    /\ wire.kind \in kinds
    /\ dbres.op = "Read"
    /\ dbres.before.read_length = 0

\* the octets that follow the first octet in the shape it announces:
\* 0xxxxxxx, 10xxxxxx, 110xxxxx, E1, E2; -1 when it announces none
Following(first) ==
    CASE first < 128 -> 0
      [] first \in 128..191 -> 1
      [] first \in 192..223 -> 2
      [] first = 225 -> 4
      [] first = 226 -> 8
      [] OTHER -> -1

\* the word of the payload of a VarUint or VarInt in the shape of its first
\* octet: the bits of the first octet after the prefix, then the octets
\* that follow, filled on the left with fill
Payload(octets, fill) ==
    CASE Following(octets[1]) = 0 -> [i \in 1..7 |-> fill] \o <<octets[1]>>
      [] Following(octets[1]) = 1 ->
            [i \in 1..6 |-> fill] \o <<octets[1] % 64, octets[2]>>
      [] Following(octets[1]) = 2 ->
            [i \in 1..5 |-> fill] \o <<octets[1] % 32, octets[2], octets[3]>>
      [] Following(octets[1]) = 4 ->
            [i \in 1..4 |-> fill] \o SubSeq(octets, 2, 5)
      [] Following(octets[1]) = 8 -> SubSeq(octets, 2, 9)

\* the payload is negative in the 7, 14, 21, 32 or 64 bits of its shape
Negative(octets) ==
    CASE Following(octets[1]) = 0 -> octets[1] >= 64
      [] Following(octets[1]) = 1 -> octets[1] % 64 >= 32
      [] Following(octets[1]) = 2 -> octets[1] % 32 >= 16
      [] OTHER -> octets[2] >= 128

\* the payload extended with its sign to 64 bits
SignExtended(octets) ==
    IF ~Negative(octets) THEN Payload(octets, 0)
    ELSE CASE Following(octets[1]) = 0 ->
                 [i \in 1..7 |-> 255] \o <<octets[1] + 128>>
           [] Following(octets[1]) = 1 ->
                 [i \in 1..6 |-> 255] \o <<(octets[1] % 64) + 192, octets[2]>>
           [] Following(octets[1]) = 2 ->
                 [i \in 1..5 |-> 255]
                 \o <<(octets[1] % 32) + 224, octets[2], octets[3]>>
           [] OTHER -> Payload(octets, 255)

\* C25: the read of a VarUint or a VarInt takes each of the five shapes,
\* also when the value fits a narrower one: it does not fail, reads 1, 2,
\* 3, 5 or 9 octets and returns that count and the value of the payload
\* (sign-extended for a VarInt); for every other first octet it throws the
\* invalid-VarUint or invalid-VarInt exception having read the first
\* octet only.
C25_Shapes ==
    ReadReceived({"VarUint", "VarInt"}) =>
        IF Following(wire.octets[1]) = -1
        THEN /\ dbres.err =
                    Exception("DeserializerException",
                              IF wire.kind = "VarUint"
                              THEN "Invalid VarUint in the data buffer"
                              ELSE "Invalid VarInt in the data buffer")
             /\ db.read_length = 1
        ELSE /\ dbres.err = NoErr
             /\ db.read_length = 1 + Following(wire.octets[1])
             /\ dbres.octets = 1 + Following(wire.octets[1])
             /\ dbres.value = IF wire.kind = "VarUint"
                              THEN Payload(wire.octets, 0)
                              ELSE SignExtended(wire.octets)

\* C25 happens: the five octets E1 00 00 00 05 were read as the VarUint 5,
\* which fits one octet, and the first octet E0 was refused
C25_Witness ==
    /\ ReadReceived({"VarUint"})
    /\ \/ /\ wire.octets[1] = 225
          /\ dbres.value = U64(5)
          /\ dbres.octets = 5
       \/ /\ wire.octets[1] = 224
          /\ dbres.err # NoErr

\* C27: the read of a Boolean from any octet does not fail and takes that
\* one octet; the write of true appends 01 and the write of false 00; and
\* the write of the Boolean that was read from a nonzero octet appends 01,
\* from the octet 00 appends 00.
C27_Boolean ==
    /\ ReadReceived({"Boolean"}) =>
           /\ dbres.err = NoErr
           /\ dbres.octets = 1
           /\ db.read_length = 1
           /\ (dbres.value = 0) <=> (wire.octets[1] = 0)
    /\ WroteGiven({"Boolean"}) =>
           /\ result.octets = 1
           /\ Data(db) = <<IF wire.value = 1 THEN 1 ELSE 0>>
    /\ (/\ wire.kind = "Boolean"
        /\ wire.octets # <<>>
        /\ result.op = "Write") =>
           /\ result.err = NoErr
           /\ Data(db) = wire.octets \o <<IF wire.octets[1] # 0 THEN 1 ELSE 0>>

----------------------------------------------------------------------------
(* Further properties of the decoder over received octets, checked under  *)
(* SpecWire                                                               *)

\* the first call on the octets of a record with a tag of no known object
\* and with the data its length announces
DecodedOther ==
    /\ result.op \in {"Decode", "DecodeObjects", "GSDecodeObject"}
    /\ result.before.read_length = 0
    /\ wire.object = <<>>
    /\ wire.over = "no"

\* the two exceptions the decoder has for a tag of 0
InvalidTagOnDecode ==
    {Exception("DecoderException", "Invalid object tag in data buffer"),
     Exception("DecoderException", "Cannot decode an invalid (0) tag type")}

\* C26: the decode of a record whose tag has the value 0, in whatever
\* VarUint shape, throws the invalid-tag exception and yields no object
\* (GSDecodeObject returns -1 with its text); every other tag that is not
\* one of the six known ones yields an UnknownObject with that tag value
\* and with the data that follow their length.
C26_TagZeroOnDecode ==
    DecodedOther =>
        IF Payload(wire.octets, 0) = Zero64
        THEN /\ decoded = <<>>
             /\ result.op # "GSDecodeObject" => result.err \in InvalidTagOnDecode
             /\ result.op = "GSDecodeObject" =>
                    /\ result.count = -1
                    /\ dec_error \in {e.what : e \in InvalidTagOnDecode}
        ELSE /\ result.err = NoErr
             /\ decoded = <<UnknownOf(Payload(wire.octets, 0),
                                      SubSeq(wire.octets, Len(wire.octets) - 2,
                                             Len(wire.octets)))>>

\* C26 happens: the record 80 00 03 00 05 00, whose tag is 0 in two octets,
\* was refused, and the record with the tag 0x8003 gave an UnknownObject
C26_Witness ==
    /\ DecodedOther
    /\ result.op = "Decode"
    /\ \/ /\ wire.octets = <<128, 0, 3, 0, 5, 0>>
          /\ result.err \in InvalidTagOnDecode
       \/ /\ wire.octets = <<192, 128, 3, 3, 0, 5, 0>>
          /\ result.value.tag = <<0, 0, 0, 0, 0, 0, 128, 3>>

----------------------------------------------------------------------------
(* Further properties of the buffer operations, checked under SpecBuf *)

\* what C28 says of one AdvanceReadLength(count): it threw and left the
\* buffer as it was, or it moved read_length forward by count
AdvanceAsStated(before, after, err, count) ==
    IF err = NoErr
    THEN /\ IsSmall(count)
         /\ after = [before EXCEPT !.read_length = @ + ToNat(count)]
    ELSE after = before

\* C28: AdvanceReadLength(count) never moves read_length backward, for the
\* counts next to the greatest std::size_t as well: it throws and leaves
\* read_length, or it adds exactly count to it.  For the buffers of both
\* revisions.
C28_AdvanceForward ==
    dbres.op = "AdvanceReadLength" =>
        /\ AdvanceAsStated(dbres.before, db, dbres.err, dbres.arg)
        /\ AdvanceAsStated(dbres.beforei, dbi, dbres.erri, dbres.arg)
        /\ db.read_length >= dbres.before.read_length
        /\ dbi.read_length >= dbres.beforei.read_length

----------------------------------------------------------------------------
(* Properties of the loop of Decode(DataBuffer<> &, GSObjects &), checked  *)
(* under SpecWire                                                          *)

\* a Decode of one object, or a GSDecodeObject, gave an object
DecodedOne ==
    \/ result.op = "Decode" /\ result.err = NoErr
    \/ result.op = "GSDecodeObject" /\ result.count = 1

\* the first call on a record that announces more than follows it failed
\* with an exception of the library
OverRefused ==
    /\ decoded = <<>>
    /\ result.op # "GSDecodeObject" => IsStdException(result.err)
    /\ result.op = "GSDecodeObject" => (result.count = -1 /\ dec_error # "")

\* C29: every Decode of one object that does not fail leaves read_length
\* greater than it was; the Decode of a vector of objects returns or throws
\* for every content of the buffer; and a record whose vector count or
\* blob length is more than the octets that remain makes the decode fail.
C29_DrainTerminates ==
    /\ DecodedOne => result.before.read_length < data_buffer.read_length
    /\ result.op = "DecodeObjects" => result.err # ErrNoReturn
    /\ (/\ result.op \in {"Decode", "DecodeObjects", "GSDecodeObject"}
        /\ result.before.read_length = 0
        /\ wire.over = "past") => OverRefused

----------------------------------------------------------------------------
(* Properties of the error text of the C API, checked under SpecWire       *)

\* C30: whenever GSDecodeObject or GSEncodeObject returns -1, the text of
\* the error of its context, which GSGetDecoderError and GSGetEncoderError
\* give, is not empty, whatever failure the decoder or the encoder raised.
C30_ErrorText ==
    /\ (result.op = "GSDecodeObject" /\ result.count = -1) => dec_error # ""
    /\ (result.op = "ReEncode" /\ result.count = -1 /\ result.err = NoErr) =>
           enc_error # ""

====
